---------------------------- MODULE Spec2Model ----------------------------
(***************************************************************************)
(* A model of the timeline engine of OrbitGl/TimeGraph.cpp: the track      *)
(* registry, timer ingestion, the capture extent, the visible time window  *)
(* and the draw order.                                                     *)
(*                                                                         *)
(* Representation.                                                         *)
(*  - A track object is a handle [type, key, gen]: gen counts the Clear    *)
(*    calls before its creation, so that a track made after Clear is a     *)
(*    different object from the one of the same identity made before it.   *)
(*  - Ticks (uint64 in the code) are natural numbers below TickMod; a      *)
(*    model tick counts 1000 nanoseconds, so the factor 0.001 of           *)
(*    TicksToMicroseconds turns a difference of d model ticks into d       *)
(*    microseconds.  Unsigned subtraction wraps modulo TickMod.            *)
(*  - A double holding microseconds is an integer number of microseconds;  *)
(*    a product with a fraction n/d is rounded down (MulFrac).             *)
(*  - A string is a sequence of one-character strings.                     *)
(***************************************************************************)
EXTENDS Integers, Sequences, FiniteSets, TLC

VARIABLES
  tracks_,                   \* owning list of all tracks
  scheduler_track_,
  process_track_,
  thread_tracks_,            \* tid -> track
  gpu_tracks_,               \* timeline hash -> track
  graph_tracks_,             \* name -> track
  async_tracks_,             \* name -> track
  track_state,               \* track -> [timers, values, name]: the objects alive
  thread_count_map_,         \* tid -> number of timers ingested
  cores_seen_,
  event_count_,
  sorted_tracks_,            \* the draw order
  thread_filter_,
  last_thread_reorder_,      \* milliseconds on the stopwatch
  capture_min_timestamp_,
  capture_max_timestamp_,
  min_time_us_,
  max_time_us_,
  time_window_us_,
  needs_update_primitives_,
  needs_redraw_,
  generation,                \* number of Clear calls so far
  unsorted_since_clear,      \* history: Clear was called and SortTracks not since
  callstack_data,            \* the capture's callstack events (external)
  is_capturing,              \* GOrbitApp->IsCapturing() (external)
  async_start_by_id,         \* pending async starts of the instrumentation manager
  world_start_x_,
  world_width_,
  selected_callstack_events_per_thread_,   \* tid -> selected events
  iterator_text_boxes_,      \* iterator id -> timer of the marked box
  iterator_functions_,       \* iterator id -> function
  selected_text_box,         \* the box GOrbitApp holds as selected (external)
  delivered,                 \* history: end ticks given to ProcessTimer since the last Clear
  last_op,                   \* history: the last operation and its arguments
  steps,                     \* history: number of steps taken so far
  mutex_,                    \* holder of mutex_ ("none", "producer", "consumer")
  pc,                        \* position of the producer and of the consumer thread
  local                      \* locals of the two threads

vars == << tracks_, scheduler_track_, process_track_, thread_tracks_, gpu_tracks_,
           graph_tracks_, async_tracks_, track_state, thread_count_map_, cores_seen_,
           event_count_, sorted_tracks_, thread_filter_, last_thread_reorder_,
           capture_min_timestamp_, capture_max_timestamp_, min_time_us_, max_time_us_,
           time_window_us_, needs_update_primitives_, needs_redraw_, generation,
           unsorted_since_clear,
           callstack_data, is_capturing, async_start_by_id, world_start_x_,
           world_width_, selected_callstack_events_per_thread_, iterator_text_boxes_,
           iterator_functions_, selected_text_box, delivered, last_op, steps, mutex_, pc, local >>

---------------------------------------------------------------------------
(* Bounds of the model *)

MaxTickIdx == 4
TickStep == 1000000
TickBits == 23
MaxTimers == 3
MaxTracks == 4
MaxClears == 1
MaxEvents == 1
MaxSampled == 2
MaxSteps == 4
MaxViewSteps == 4
MaxConcCalls == 4
BlockSize == 2
SubStep == 50
CanvasWorldTopLeftX == 0
CanvasWorldWidth == 4

(* Program constants *)

kAllThreadsFakeTid == -1
GNumHistorySeconds == 2
kReorderIntervalMs == 1000

TickMod == 2 ^ TickBits
UInt64Max == TickMod - 1
Ticks == { i * TickStep : i \in 0..MaxTickIdx }

---------------------------------------------------------------------------
(* Generic helpers *)

Range(s) == { s[i] : i \in DOMAIN s }

Min2(a, b) == IF a < b THEN a ELSE b
Max2(a, b) == IF a > b THEN a ELSE b

SetMin(S) == CHOOSE x \in S : \A y \in S : x <= y
SetMax(S) == CHOOSE x \in S : \A y \in S : x >= y

RECURSIVE SetToSortedSeq(_)
SetToSortedSeq(S) ==
  IF S = {} THEN << >> ELSE << SetMin(S) >> \o SetToSortedSeq(S \ {SetMin(S)})

NoDuplicates(s) == \A i, j \in DOMAIN s : i # j => s[i] # s[j]

Orderings(S) ==
  { s \in [1..Cardinality(S) -> S] : \A i, j \in 1..Cardinality(S) : i # j => s[i] # s[j] }

(* x * n / d for a double x, rounded down to the model's grid. *)
MulFrac(x, n, d) == (x * n) \div d

(* Utils.h clamp(v, lo, hi): v < lo ? lo : v > hi ? hi : v *)
clamp(v, lo, hi) == IF v < lo THEN lo ELSE IF v > hi THEN hi ELSE v

(* absl::StrContains(s, sub) *)
StrContains(s, sub) ==
  \E i \in 1..(Len(s) + 1) :
     /\ i + Len(sub) - 1 <= Len(s)
     /\ SubSeq(s, i, i + Len(sub) - 1) = sub

(* absl::StrSplit(s, ' '): the pieces between the spaces, empty ones kept. *)
RECURSIVE StrSplit(_)
StrSplit(s) ==
  IF \A i \in DOMAIN s : s[i] # " " THEN << s >>
  ELSE LET p == SetMin({ i \in DOMAIN s : s[i] = " " })
       IN  << SubSeq(s, 1, p - 1) >> \o StrSplit(SubSeq(s, p + 1, Len(s)))

(* OrbitBase TicksToMicroseconds(start, end): (end - start) * 0.001, the *)
(* subtraction being unsigned.                                           *)
TicksToMicroseconds(start, end) == (end - start) % TickMod

---------------------------------------------------------------------------
(* The engine as a record: every operation of TimeGraph is an operator     *)
(* from engine records to engine records.                                  *)

Eng ==
  [ tracks_ |-> tracks_, scheduler_track_ |-> scheduler_track_,
    process_track_ |-> process_track_, thread_tracks_ |-> thread_tracks_,
    gpu_tracks_ |-> gpu_tracks_, graph_tracks_ |-> graph_tracks_,
    async_tracks_ |-> async_tracks_, track_state |-> track_state,
    thread_count_map_ |-> thread_count_map_, cores_seen_ |-> cores_seen_,
    event_count_ |-> event_count_, sorted_tracks_ |-> sorted_tracks_,
    thread_filter_ |-> thread_filter_, last_thread_reorder_ |-> last_thread_reorder_,
    capture_min_timestamp_ |-> capture_min_timestamp_,
    capture_max_timestamp_ |-> capture_max_timestamp_,
    min_time_us_ |-> min_time_us_, max_time_us_ |-> max_time_us_,
    time_window_us_ |-> time_window_us_,
    needs_update_primitives_ |-> needs_update_primitives_,
    needs_redraw_ |-> needs_redraw_, generation |-> generation,
    unsorted_since_clear |-> unsorted_since_clear,
    callstack_data |-> callstack_data, is_capturing |-> is_capturing,
    async_start_by_id |-> async_start_by_id,
    world_start_x_ |-> world_start_x_, world_width_ |-> world_width_,
    selected_callstack_events_per_thread_ |-> selected_callstack_events_per_thread_,
    iterator_text_boxes_ |-> iterator_text_boxes_,
    iterator_functions_ |-> iterator_functions_,
    selected_text_box |-> selected_text_box ]

Install(e) ==
  /\ tracks_' = e.tracks_
  /\ scheduler_track_' = e.scheduler_track_
  /\ process_track_' = e.process_track_
  /\ thread_tracks_' = e.thread_tracks_
  /\ gpu_tracks_' = e.gpu_tracks_
  /\ graph_tracks_' = e.graph_tracks_
  /\ async_tracks_' = e.async_tracks_
  /\ track_state' = e.track_state
  /\ thread_count_map_' = e.thread_count_map_
  /\ cores_seen_' = e.cores_seen_
  /\ event_count_' = e.event_count_
  /\ sorted_tracks_' = e.sorted_tracks_
  /\ thread_filter_' = e.thread_filter_
  /\ last_thread_reorder_' = e.last_thread_reorder_
  /\ capture_min_timestamp_' = e.capture_min_timestamp_
  /\ capture_max_timestamp_' = e.capture_max_timestamp_
  /\ min_time_us_' = e.min_time_us_
  /\ max_time_us_' = e.max_time_us_
  /\ time_window_us_' = e.time_window_us_
  /\ needs_update_primitives_' = e.needs_update_primitives_
  /\ needs_redraw_' = e.needs_redraw_
  /\ generation' = e.generation
  /\ unsorted_since_clear' = e.unsorted_since_clear
  /\ callstack_data' = e.callstack_data
  /\ is_capturing' = e.is_capturing
  /\ async_start_by_id' = e.async_start_by_id
  /\ world_start_x_' = e.world_start_x_
  /\ world_width_' = e.world_width_
  /\ selected_callstack_events_per_thread_' = e.selected_callstack_events_per_thread_
  /\ iterator_text_boxes_' = e.iterator_text_boxes_
  /\ iterator_functions_' = e.iterator_functions_
  /\ selected_text_box' = e.selected_text_box

---------------------------------------------------------------------------
(* Tracks *)

Null == [type |-> "null", key |-> 0, gen |-> 0]

Handle(type, key, gen) == [type |-> type, key |-> key, gen |-> gen]

(* A freshly constructed track: no timers, no values, no name. *)
NewTrackState == [timers |-> << >>, values |-> << >>, name |-> << >>]

(* std::map operator[]: the mapped track, nullptr for a key not yet there. *)
Lookup(m, k) == IF k \in DOMAIN m THEN m[k] ELSE Null

MapPut(m, k, v) == [x \in DOMAIN m \cup {k} |-> IF x = k THEN v ELSE m[x]]

(* The values of a map in the order of its keys. *)
MapValues(m) == LET ks == SetToSortedSeq(DOMAIN m) IN [i \in DOMAIN ks |-> m[ks[i]]]

(* Track::GetNumTimers, Track::GetMinTime, Track::GetMaxTime *)
GetNumTimers(e, t) == Len(e.track_state[t].timers)
GetMinTime(e, t) == SetMin({ r.start : r \in Range(e.track_state[t].timers) })
GetMaxTime(e, t) == SetMax({ r.end : r \in Range(e.track_state[t].timers) })

(* The callstack events a thread track's event track shows: all of them *)
(* for the process track.                                               *)
EventsOfTrack(e, t) ==
  { ev \in e.callstack_data : t.key = kAllThreadsFakeTid \/ ev.thread_id = t.key }

(* Track::IsEmpty of each variant *)
IsEmpty(e, t) ==
  CASE t.type = "thread" -> GetNumTimers(e, t) = 0 /\ EventsOfTrack(e, t) = {}
    [] t.type = "graph"  -> e.track_state[t].values = << >>
    [] OTHER             -> GetNumTimers(e, t) = 0

(* Track::OnTimer: the timer is appended to the track's chain. *)
OnTimer(e, t, timer_info) ==
  [e EXCEPT !.track_state[t].timers = Append(@, timer_info)]

(* GraphTrack::AddValue *)
AddValue(e, t, time) ==
  [e EXCEPT !.track_state[t].values = Append(@, time)]

(* The track objects some reference keeps alive (shared_ptr). *)
LiveTracks(e) == Range(e.tracks_) \cup Range(e.sorted_tracks_)

ReleaseDead(e) ==
  [e EXCEPT !.track_state = [t \in LiveTracks(e) |-> e.track_state[t]]]

NeedsUpdate(e) ==
  [e EXCEPT !.needs_update_primitives_ = TRUE, !.needs_redraw_ = TRUE]

---------------------------------------------------------------------------
(* The track registry *)

(* A track put into the owning list twice *)
RegisterTwice(e, t) ==
  [e EXCEPT !.tracks_ = Append(Append(@, t), t),
            !.track_state = MapPut(@, t, NewTrackState)]

Register(e, t) ==
  [e EXCEPT !.tracks_ = Append(@, t),
            !.track_state = MapPut(@, t, NewTrackState)]

GetOrCreateSchedulerTrack(e) ==
  IF e.scheduler_track_ = Null
  THEN LET t == Handle("scheduler", 0, e.generation)
       IN  [Register(e, t) EXCEPT !.scheduler_track_ = t]
  ELSE e

GetOrCreateThreadTrack(e, tid) ==
  IF Lookup(e.thread_tracks_, tid) = Null
  THEN LET t == Handle("thread", tid, e.generation)
       IN  [Register(e, t) EXCEPT !.thread_tracks_ = MapPut(@, tid, t)]
  ELSE e

GetOrCreateGpuTrack(e, timeline_hash) ==
  IF Lookup(e.gpu_tracks_, timeline_hash) = Null
  THEN LET t == Handle("gpu", timeline_hash, e.generation)
       IN  [Register(e, t) EXCEPT !.gpu_tracks_ = MapPut(@, timeline_hash, t)]
  ELSE e

GetOrCreateGraphTrack(e, name) ==
  IF Lookup(e.graph_tracks_, name) = Null
  THEN LET t == Handle("graph", name, e.generation)
       IN  [Register(e, t) EXCEPT !.graph_tracks_ = MapPut(@, name, t)]
  ELSE e

GetOrCreateAsyncTrack(e, name) ==
  IF Lookup(e.async_tracks_, name) = Null
  THEN LET t == Handle("async", name, e.generation)
       IN  [Register(e, t) EXCEPT !.async_tracks_ = MapPut(@, name, t)]
  ELSE e

RECURSIVE GetOrCreateThreadTracks(_, _)
GetOrCreateThreadTracks(e, tids) ==
  IF tids = << >> THEN e
  ELSE GetOrCreateThreadTracks(GetOrCreateThreadTrack(e, Head(tids)), Tail(tids))

---------------------------------------------------------------------------
(* Ingestion *)

(* ProcessTimer's update of capture_max_timestamp_ and UpdateMaxTimeStamp, *)
(* first without the comparison, then as the code has them.               *)
NewCaptureMaxUnchecked(current, time) == time

NewCaptureMax(current, time) == IF time > current THEN time ELSE current

UpdateMaxTimeStamp(e, time) ==
  [e EXCEPT !.capture_max_timestamp_ = NewCaptureMax(@, time)]

(* The listener the constructor registers with the instrumentation manager *)
ProcessAsyncTimer(e, track_name, timer_info) ==
  LET e1 == GetOrCreateAsyncTrack(e, track_name)
  IN  OnTimer(e1, e1.async_tracks_[track_name], timer_info)

(* ManualInstrumentationManager::ProcessAsyncTimer: a start is kept until *)
(* its stop arrives; the stop makes the span from the start's start to    *)
(* the stop's end and hands it to the listener.                           *)
ManagerProcessAsyncTimer(e, function, timer_info) ==
  IF function.orbit_type = "kOrbitTimerStartAsync"
  THEN [e EXCEPT !.async_start_by_id = MapPut(@, function.name, timer_info)]
  ELSE IF function.name \in DOMAIN e.async_start_by_id
       THEN LET span == [e.async_start_by_id[function.name] EXCEPT !.end = timer_info.end]
            IN  ProcessAsyncTimer(e, function.name, span)
       ELSE e

SupportedValueTypes ==
  {"kTrackInt", "kTrackInt64", "kTrackUint", "kTrackUint64", "kTrackFloat", "kTrackDouble"}

ProcessValueTrackingTimer(e, function, timer_info) ==
  IF function.event_type = "kString" THEN e
  ELSE LET e1 == GetOrCreateGraphTrack(e, function.name)
           track == e1.graph_tracks_[function.name]
       IN  IF function.event_type \in SupportedValueTypes
           THEN AddValue(e1, track, timer_info.start)
           ELSE e1

ProcessOrbitFunctionTimer(e, function, timer_info) ==
  CASE function.orbit_type = "kOrbitTrackValue" ->
         ProcessValueTrackingTimer(e, function, timer_info)
    [] function.orbit_type \in {"kOrbitTimerStartAsync", "kOrbitTimerStopAsync"} ->
         ManagerProcessAsyncTimer(e, function, timer_info)
    [] OTHER -> e

(* Lines 334 and 337: the track the timer belongs to, created if absent. *)
GetOrCreateTrackOf(e, timer_info) ==
  IF timer_info.type = "kGpuActivity"
  THEN GetOrCreateGpuTrack(e, timer_info.timeline_hash)
  ELSE GetOrCreateThreadTrack(e, timer_info.thread_id)

(* Lines 343-345 for every timer that is not a GpuActivity, a CoreActivity *)
(* included.                                                              *)
DispatchAllToThreadTrack(e, timer_info) ==
  IF timer_info.type = "kGpuActivity"
  THEN OnTimer(e, e.gpu_tracks_[timer_info.timeline_hash], timer_info)
  ELSE [OnTimer(e, e.thread_tracks_[timer_info.thread_id], timer_info)
          EXCEPT !.thread_count_map_ =
            MapPut(@, timer_info.thread_id,
                   IF timer_info.thread_id \in DOMAIN @
                   THEN @[timer_info.thread_id] + 1 ELSE 1)]

(* Lines 335 and 343-349: the timer goes to its track. *)
DispatchTimer(e, timer_info) ==
  IF timer_info.type = "kGpuActivity"
  THEN OnTimer(e, e.gpu_tracks_[timer_info.timeline_hash], timer_info)
  ELSE IF timer_info.type # "kCoreActivity"
       THEN [OnTimer(e, e.thread_tracks_[timer_info.thread_id], timer_info)
               EXCEPT !.thread_count_map_ =
                 MapPut(@, timer_info.thread_id,
                        IF timer_info.thread_id \in DOMAIN @
                        THEN @[timer_info.thread_id] + 1 ELSE 1)]
       ELSE [OnTimer(e, e.scheduler_track_, timer_info)
               EXCEPT !.cores_seen_ = @ \cup {timer_info.processor}]

(* function is [orbit_type, event_type, name]; orbit_type "nullptr" stands *)
(* for a null function pointer.                                            *)
ProcessTimer(e, timer_info, function) ==
  LET e1 == [e EXCEPT !.capture_max_timestamp_ = NewCaptureMax(@, timer_info.end)]
      e2 == IF function.orbit_type \notin {"nullptr", "kNone"}
            THEN ProcessOrbitFunctionTimer(e1, function, timer_info)
            ELSE e1
  IN  NeedsUpdate(DispatchTimer(GetOrCreateTrackOf(e2, timer_info), timer_info))

(* TimeGraph.h SetIteratorOverlayData: both maps are replaced and a redraw *)
(* is asked for.                                                         *)
SetIteratorOverlayData(e, iterator_text_boxes, iterator_functions) ==
  [e EXCEPT !.iterator_text_boxes_ = iterator_text_boxes,
            !.iterator_functions_ = iterator_functions,
            !.needs_redraw_ = TRUE]

(* Lines 100-101, and the same without line 100 *)
ResetCaptureMaxOnly(e) == [e EXCEPT !.capture_max_timestamp_ = 0]

ResetCaptureExtent(e) ==
  [e EXCEPT !.capture_min_timestamp_ = UInt64Max, !.capture_max_timestamp_ = 0]

Clear(e) ==
  LET e1 == [ResetCaptureExtent(e) EXCEPT
                      !.thread_count_map_ = << >>,
                      !.tracks_ = << >>,
                      !.scheduler_track_ = Null,
                      !.thread_tracks_ = << >>,
                      !.gpu_tracks_ = << >>,
                      !.graph_tracks_ = << >>,
                      !.async_tracks_ = << >>,
                      !.cores_seen_ = {},
                      !.generation = @ + 1,
                      !.unsorted_since_clear = TRUE]
      e2 == GetOrCreateSchedulerTrack(e1)
      e3 == GetOrCreateThreadTrack(e2, kAllThreadsFakeTid)
      e4 == [e3 EXCEPT !.process_track_ = e3.thread_tracks_[kAllThreadsFakeTid]]
  IN  NeedsUpdate(SetIteratorOverlayData(ReleaseDead(e4), << >>, << >>))

(* CallstackData::GetCallstackEventsCount, min_time, max_time *)
GetCallstackEventsCount(e) == Cardinality(e.callstack_data)
CallstackMinTime(e) ==
  IF e.callstack_data = {} THEN UInt64Max ELSE SetMin({ ev.time : ev \in e.callstack_data })
CallstackMaxTime(e) ==
  IF e.callstack_data = {} THEN 0 ELSE SetMax({ ev.time : ev \in e.callstack_data })

(* UpdateCaptureMinMaxTimestamps: the engine afterwards; what it returns is *)
(* HasCaptureData of that engine.                                          *)
UpdateCaptureMinMaxTimestamps(e) ==
  LET mins == { GetMinTime(e, t) : t \in { x \in Range(e.tracks_) : GetNumTimers(e, x) > 0 } }
      usable == { m \in mins : m > 0 }
      from_tracks == IF usable = {} THEN UInt64Max ELSE SetMin(usable)
  IN  IF GetCallstackEventsCount(e) > 0
      THEN [e EXCEPT !.capture_min_timestamp_ = Min2(from_tracks, CallstackMinTime(e)),
                     !.capture_max_timestamp_ = Max2(@, CallstackMaxTime(e))]
      ELSE [e EXCEPT !.capture_min_timestamp_ = from_tracks]

HasCaptureData(e) == e.capture_min_timestamp_ # UInt64Max

---------------------------------------------------------------------------
(* The draw order *)

(* The capture's names (external): GetThreadName(tid) and process_name() *)
ThreadName(tid) == IF tid = 1 THEN << "a", "b" >> ELSE << "b" >>
ProcessName == << "p" >>

(* OrbitUtils::ReverseValueSort: the keys of a map by descending value; the *)
(* order of keys of equal value is whatever std::sort leaves.              *)
ReverseValueSort(m) ==
  { s \in Orderings(DOMAIN m) : \A i, j \in DOMAIN s : i < j => m[s[i]] >= m[s[j]] }

SelectTids(s, keep) == SelectSeq(s, LAMBDA t : t \in keep)

(* Lines 898-912: one entry per (thread, filter token) pair that matches. *)
FilterMatches(name, filters) ==
  Cardinality({ i \in DOMAIN filters : StrContains(name, filters[i]) })

RECURSIVE Repeat(_, _)
Repeat(x, n) == IF n = 0 THEN << >> ELSE << x >> \o Repeat(x, n - 1)

RECURSIVE FilterThreadIds(_, _, _)
FilterThreadIds(e, tids, filters) ==
  IF tids = << >> THEN << >>
  ELSE LET track == e.thread_tracks_[Head(tids)]
       IN  Repeat(Head(tids), FilterMatches(e.track_state[track].name, filters))
             \o FilterThreadIds(e, Tail(tids), filters)

(* Lines 916-934 with the loop over graph_tracks_ before the one over *)
(* gpu_tracks_.                                                      *)
LeadingTracksGraphFirst(e) ==
  (IF ~IsEmpty(e, e.scheduler_track_) THEN << e.scheduler_track_ >> ELSE << >>)
    \o MapValues(e.graph_tracks_) \o MapValues(e.gpu_tracks_) \o MapValues(e.async_tracks_)

(* Lines 916-919 and 921-934: which of the scheduler, Gpu, Graph and Async *)
(* tracks enter the draw order.                                            *)
LeadingTracks(e) ==
  (IF ~IsEmpty(e, e.scheduler_track_) THEN << e.scheduler_track_ >> ELSE << >>)
    \o MapValues(e.gpu_tracks_) \o MapValues(e.graph_tracks_) \o MapValues(e.async_tracks_)

(* Lines 875-896 with the two loops in the other order *)
AllThreadIdsEventsFirst(e, sortedThreads, sortedByEvents) ==
  SelectTids(sortedByEvents,
             DOMAIN e.event_count_ \ (DOMAIN e.thread_count_map_ \cup {kAllThreadsFakeTid}))
    \o SelectTids(sortedThreads, DOMAIN e.thread_count_map_ \ {kAllThreadsFakeTid})

(* Lines 875-896: the threads with timers by rank, then the other threads *)
(* with callstack events by rank.                                         *)
AllThreadIds(e, sortedThreads, sortedByEvents) ==
  SelectTids(sortedThreads, DOMAIN e.thread_count_map_ \ {kAllThreadsFakeTid})
    \o SelectTids(sortedByEvents,
                  DOMAIN e.event_count_ \ (DOMAIN e.thread_count_map_ \cup {kAllThreadsFakeTid}))

(* Lines 898-912 *)
SortedThreadIds(e, allThreadIds) ==
  IF e.thread_filter_ # << >>
  THEN FilterThreadIds(e, allThreadIds, StrSplit(e.thread_filter_))
  ELSE allThreadIds

(* Lines 936-947: the process track and the thread tracks, the empty ones *)
(* left out.                                                              *)
TrailingTracks(e, sortedThreadIds) ==
  (IF ~IsEmpty(e, e.process_track_) THEN << e.process_track_ >> ELSE << >>)
    \o SelectSeq([i \in DOMAIN sortedThreadIds |-> e.thread_tracks_[sortedThreadIds[i]]],
                 LAMBDA t : ~IsEmpty(e, t))

(* Lines 875-949: the draw order rebuilt from the two rankings of threads. *)
RebuildSortedTracks(e, sortedThreads, sortedByEvents) ==
  LET allThreadIds == AllThreadIds(e, sortedThreads, sortedByEvents)
      e1 == GetOrCreateThreadTracks(e, allThreadIds)
      sortedThreadIds == SortedThreadIds(e1, allThreadIds)
  IN  ReleaseDead([e1 EXCEPT !.sorted_tracks_ =
                               LeadingTracks(e1) \o TrailingTracks(e1, sortedThreadIds),
                             !.last_thread_reorder_ = 0])

(* Lines 861-871: the event counts, and a thread track for every thread *)
(* with callstack events.                                               *)
CountEvents(e) ==
  LET tids == { ev.thread_id : ev \in e.callstack_data }
      counts == [t \in tids \cup {kAllThreadsFakeTid} |->
                   IF t \in tids THEN Cardinality({ ev \in e.callstack_data : ev.thread_id = t })
                   ELSE GetCallstackEventsCount(e)]
  IN  GetOrCreateThreadTracks(GetOrCreateThreadTrack([e EXCEPT !.event_count_ = counts,
                                                               !.unsorted_since_clear = FALSE],
                                                     kAllThreadsFakeTid),
                              SetToSortedSeq(tids))

(* Line 874 *)
ReorderIsDue(e) == ~e.is_capturing \/ e.last_thread_reorder_ > kReorderIntervalMs

(* SortTracks: the engines it may leave. *)
SortTracks(e) ==
  LET e2 == CountEvents(e)
  IN  IF ReorderIsDue(e2)
      THEN { RebuildSortedTracks(e2, a, b) :
               a \in ReverseValueSort(e2.thread_count_map_),
               b \in ReverseValueSort(e2.event_count_) }
      ELSE { e2 }

(* UpdatePrimitives: the engines it may leave. *)
UpdatePrimitives(e) ==
  LET e1 == UpdateMaxTimeStamp(e, CallstackMaxTime(e))
      e2 == [e1 EXCEPT !.time_window_us_ = e1.max_time_us_ - e1.min_time_us_,
                       !.world_start_x_ = CanvasWorldTopLeftX,
                       !.world_width_ = CanvasWorldWidth]
  IN  { [e3 EXCEPT !.needs_update_primitives_ = FALSE] : e3 \in SortTracks(e2) }

(* DrawTracks: every thread track of the draw order gets its name. *)
DrawTracks(e) ==
  [e EXCEPT !.track_state =
     [t \in DOMAIN @ |->
        IF t \in Range(e.sorted_tracks_) /\ t.type = "thread"
        THEN [@[t] EXCEPT !.name = IF t.key = kAllThreadsFakeTid THEN ProcessName
                                   ELSE ThreadName(t.key)]
        ELSE @[t]]]

(* Draw with the test of line 612 reading the flag only *)
DrawOnlyIfDirty(e, picking) ==
  LET updated == IF e.needs_update_primitives_ THEN UpdatePrimitives(e) ELSE { e }
  IN  { [DrawTracks(e1) EXCEPT !.needs_redraw_ = FALSE] : e1 \in updated }

(* Draw: the engines it may leave. *)
Draw(e, picking) ==
  LET updated == IF (~picking /\ e.needs_update_primitives_) \/ picking
                 THEN UpdatePrimitives(e) ELSE { e }
  IN  { [DrawTracks(e1) EXCEPT !.needs_redraw_ = FALSE] : e1 \in updated }

SetThreadFilter(e, filter) == NeedsUpdate([e EXCEPT !.thread_filter_ = filter])

---------------------------------------------------------------------------
(* The visible window.  A fraction is a pair << numerator, denominator >>. *)

(* GetCaptureTimeSpanUs, on the engine UpdateCaptureMinMaxTimestamps left *)
CaptureTimeSpanUs(e) ==
  IF HasCaptureData(e)
  THEN TicksToMicroseconds(e.capture_min_timestamp_, e.capture_max_timestamp_)
  ELSE 0

SetMinMax(e, a_MinTimeUs, a_MaxTimeUs) ==
  LET desiredTimeWindow == a_MaxTimeUs - a_MinTimeUs
      e1 == UpdateCaptureMinMaxTimestamps(e)
      min_time == Max2(a_MinTimeUs, 0)
  IN  NeedsUpdate([e1 EXCEPT !.min_time_us_ = min_time,
                             !.max_time_us_ = Min2(min_time + desiredTimeWindow,
                                                   CaptureTimeSpanUs(e1))])

(* ZoomAll without line 152, then ZoomAll *)
ZoomAllUnclamped(e) ==
  LET e1 == UpdateCaptureMinMaxTimestamps(e)
      max_time == CaptureTimeSpanUs(e1)
  IN  IF HasCaptureData(e1)
      THEN NeedsUpdate([e1 EXCEPT !.max_time_us_ = max_time,
                                  !.min_time_us_ = max_time - GNumHistorySeconds * 1000 * 1000])
      ELSE e1

(* ZoomAll without the test of line 149 *)
ZoomAllUnguarded(e) ==
  LET e1 == UpdateCaptureMinMaxTimestamps(e)
      max_time == CaptureTimeSpanUs(e1)
      min_time == max_time - GNumHistorySeconds * 1000 * 1000
  IN  NeedsUpdate([e1 EXCEPT !.max_time_us_ = max_time,
                             !.min_time_us_ = IF min_time < 0 THEN 0 ELSE min_time])

ZoomAll(e) ==
  LET e1 == UpdateCaptureMinMaxTimestamps(e)
      max_time == CaptureTimeSpanUs(e1)
      min_time == max_time - GNumHistorySeconds * 1000 * 1000
  IN  IF HasCaptureData(e1)
      THEN NeedsUpdate([e1 EXCEPT !.max_time_us_ = max_time,
                                  !.min_time_us_ = IF min_time < 0 THEN 0 ELSE min_time])
      ELSE e1

(* Zoom with the factor 1.1 of line 163 left out *)
ZoomWithoutMargin(e, min, max) ==
  LET start == TicksToMicroseconds(e.capture_min_timestamp_, min)
      end == TicksToMicroseconds(e.capture_min_timestamp_, max)
      mid == start + MulFrac(end - start, 1, 2)
      extent == MulFrac(end - start, 1, 2)
  IN  SetMinMax(e, mid - extent, mid + extent)

Zoom(e, min, max) ==
  LET start == TicksToMicroseconds(e.capture_min_timestamp_, min)
      end == TicksToMicroseconds(e.capture_min_timestamp_, max)
      mid == start + MulFrac(end - start, 1, 2)
      extent == MulFrac(end - start, 11, 20)
  IN  SetMinMax(e, mid - extent, mid + extent)

(* ZoomTime without the test of lines 199-201 *)
ZoomTimeUnchecked(e, a_ZoomValue, a_MouseRatio) ==
  LET scale == IF a_ZoomValue > 0 THEN << 11, 10 >> ELSE << 10, 11 >>
      CurrentTimeWindowUs == e.max_time_us_ - e.min_time_us_
      ref_time_us == e.min_time_us_ + MulFrac(CurrentTimeWindowUs, a_MouseRatio[1], a_MouseRatio[2])
      timeLeft == Max2(ref_time_us - e.min_time_us_, 0)
      timeRight == Max2(e.max_time_us_ - ref_time_us, 0)
  IN  SetMinMax(e, ref_time_us - MulFrac(timeLeft, scale[1], scale[2]),
                   ref_time_us + MulFrac(timeRight, scale[1], scale[2]))

(* a_ZoomValue > 0 scales by 1.1, otherwise by 1 / 1.1.  A window narrower *)
(* than 0.001 us is, on the grid of whole microseconds, one narrower than 1. *)
ZoomTime(e, a_ZoomValue, a_MouseRatio) ==
  LET scale == IF a_ZoomValue > 0 THEN << 11, 10 >> ELSE << 10, 11 >>
      CurrentTimeWindowUs == e.max_time_us_ - e.min_time_us_
      ref_time_us == e.min_time_us_ + MulFrac(CurrentTimeWindowUs, a_MouseRatio[1], a_MouseRatio[2])
      timeLeft == Max2(ref_time_us - e.min_time_us_, 0)
      timeRight == Max2(e.max_time_us_ - ref_time_us, 0)
      minTimeUs == ref_time_us - MulFrac(timeLeft, scale[1], scale[2])
      maxTimeUs == ref_time_us + MulFrac(timeRight, scale[1], scale[2])
  IN  IF maxTimeUs - minTimeUs < 1 THEN e ELSE SetMinMax(e, minTimeUs, maxTimeUs)

PanTime(e, a_InitialX, a_CurrentX, a_Width, a_InitialTime) ==
  LET window == e.max_time_us_ - e.min_time_us_
      initialLocalTime == MulFrac(window, a_InitialX, a_Width)
      dt == MulFrac(window, a_CurrentX - a_InitialX, a_Width)
      currentTime == a_InitialTime - dt
      e1 == UpdateCaptureMinMaxTimestamps(e)
      min_time == clamp(currentTime - initialLocalTime, 0, CaptureTimeSpanUs(e1) - window)
  IN  NeedsUpdate([e1 EXCEPT !.time_window_us_ = window,
                             !.min_time_us_ = min_time,
                             !.max_time_us_ = min_time + window])

OnDrag(e, a_Ratio) ==
  LET e1 == UpdateCaptureMinMaxTimestamps(e)
      timeSpan == CaptureTimeSpanUs(e1)
      timeWindow == e.max_time_us_ - e.min_time_us_
      min_time == MulFrac(timeSpan - timeWindow, a_Ratio[1], a_Ratio[2])
  IN  [e1 EXCEPT !.min_time_us_ = min_time, !.max_time_us_ = min_time + timeWindow]

IsFullyVisible(e, min, max) ==
  /\ TicksToMicroseconds(e.capture_min_timestamp_, min) > e.min_time_us_
  /\ TicksToMicroseconds(e.capture_min_timestamp_, max) < e.max_time_us_

IsPartlyVisible(e, min, max) ==
  ~ \/ e.min_time_us_ > TicksToMicroseconds(e.capture_min_timestamp_, max)
    \/ e.max_time_us_ < TicksToMicroseconds(e.capture_min_timestamp_, min)

IsVisible(e, vis_type, min, max) ==
  CASE vis_type = "kPartlyVisible" -> IsPartlyVisible(e, min, max)
    [] vis_type = "kFullyVisible" -> IsFullyVisible(e, min, max)
    [] OTHER -> FALSE

(* HorizontallyMoveIntoView without lines 272-274 *)
HorizontallyMoveIntoViewUnmirrored(e, vis_type, min, max, distance) ==
  LET start == TicksToMicroseconds(e.capture_min_timestamp_, min)
      end == TicksToMicroseconds(e.capture_min_timestamp_, max)
      CurrentTimeWindowUs == e.max_time_us_ - e.min_time_us_
      mid == start + MulFrac(end - start, 1, 2)
  IN  IF IsVisible(e, vis_type, min, max) THEN e
      ELSE IF vis_type = "kFullyVisible" /\ CurrentTimeWindowUs < end - start
           THEN Zoom(e, min, max)
           ELSE NeedsUpdate(SetMinMax(e,
                  mid - MulFrac(CurrentTimeWindowUs, distance[2] - distance[1], distance[2]),
                  mid + MulFrac(CurrentTimeWindowUs, distance[1], distance[2])))

HorizontallyMoveIntoView(e, vis_type, min, max, distance) ==
  LET start == TicksToMicroseconds(e.capture_min_timestamp_, min)
      end == TicksToMicroseconds(e.capture_min_timestamp_, max)
      CurrentTimeWindowUs == e.max_time_us_ - e.min_time_us_
      mid == start + MulFrac(end - start, 1, 2)
      d == IF start < e.min_time_us_ THEN << distance[2] - distance[1], distance[2] >>
           ELSE distance
  IN  IF IsVisible(e, vis_type, min, max) THEN e
      ELSE IF vis_type = "kFullyVisible" /\ CurrentTimeWindowUs < end - start
           THEN Zoom(e, min, max)
           ELSE NeedsUpdate(SetMinMax(e,
                  mid - MulFrac(CurrentTimeWindowUs, d[2] - d[1], d[2]),
                  mid + MulFrac(CurrentTimeWindowUs, d[1], d[2])))

(* Tick <-> microsecond conversion (lines 465-467 and 476-479).  A model  *)
(* tick is 1000 ns, so the 1000 * micros nanoseconds of line 477 are        *)
(* micros ticks.  GetUsFromTick is relative to the start of the visible     *)
(* window, GetTickFromUs to the start of the capture.  The cast of a        *)
(* negative double to uint64_t is undefined: a build wraps it or saturates  *)
(* it at 0, so GetTickFromUs is a set of ticks.                             *)
GetUsFromTick(e, time) ==
  TicksToMicroseconds(e.capture_min_timestamp_, time) - e.min_time_us_

StaticCastUint64(x) == IF x >= 0 THEN { x % TickMod } ELSE { x % TickMod, 0 }

GetTickFromUs(e, micros) ==
  { (e.capture_min_timestamp_ + nanos) % TickMod : nanos \in StaticCastUint64(micros) }

(* Lines 312-316 *)
GetTime(e, a_Ratio) ==
  LET CurrentWidth == e.max_time_us_ - e.min_time_us_
  IN  e.min_time_us_ + MulFrac(CurrentWidth, a_Ratio[1], a_Ratio[2])

(* Lines 469-474 *)
GetTickFromWorld(e, world_x) ==
  LET ratio == IF e.world_width_ # 0
               THEN << world_x - e.world_start_x_, e.world_width_ >>
               ELSE << 0, 1 >>
  IN  { (e.capture_min_timestamp_ + time_span_ns) % TickMod :
          time_span_ns \in StaticCastUint64(GetTime(e, ratio)) }

(* Lines 450-459: the coordinate is computed from the time window and the *)
(* world extent that UpdatePrimitives stored; 0 unless that window is     *)
(* positive.                                                              *)
GetWorldFromTick(e, a_Time) ==
  IF e.time_window_us_ > 0
  THEN LET start == TicksToMicroseconds(e.capture_min_timestamp_, a_Time) - e.min_time_us_
       IN  e.world_start_x_ + MulFrac(start, e.world_width_, e.time_window_us_)
  ELSE 0

---------------------------------------------------------------------------
(* Selection *)

(* The events of a set as the capture's index lists them: by thread id, *)
(* then by time.                                                        *)
RECURSIVE EventSeq(_)
EventSeq(S) ==
  IF S = {} THEN << >>
  ELSE LET first == CHOOSE x \in S : \A y \in S :
                      \/ x.thread_id < y.thread_id
                      \/ x.thread_id = y.thread_id /\ x.time <= y.time
       IN  << first >> \o EventSeq(S \ {first})

(* CallstackData::GetCallstackEventsInTimeRange and                     *)
(* GetCallstackEventsOfTidInTimeRange: the events of [time_begin, time_end) *)
GetCallstackEventsInTimeRange(e, time_begin, time_end) ==
  EventSeq({ ev \in e.callstack_data : time_begin <= ev.time /\ ev.time < time_end })

GetCallstackEventsOfTidInTimeRange(e, tid, time_begin, time_end) ==
  EventSeq({ ev \in e.callstack_data :
               ev.thread_id = tid /\ time_begin <= ev.time /\ ev.time < time_end })

(* Lines 591-595: the map is emptied, then every event goes to the bucket *)
(* of its thread and to the bucket of all threads.                       *)
SelectionMap(events) ==
  [tid \in IF events = << >> THEN {}
           ELSE { ev.thread_id : ev \in Range(events) } \cup {kAllThreadsFakeTid} |->
     IF tid = kAllThreadsFakeTid THEN events
     ELSE SelectSeq(events, LAMBDA ev : ev.thread_id = tid)]

(* Lines 578-580, and the same without the swap *)
OrderedAsGiven(world_start, world_end) == << world_start, world_end >>

OrderedWorldRange(world_start, world_end) ==
  IF world_start > world_end THEN << world_end, world_start >>
  ELSE << world_start, world_end >>

(* SelectEvents without the clear() of line 591: the events are appended *)
(* to the buckets of the selection before.                               *)
SelectEventsIncremental(e, world_start, world_end, thread_id) ==
  LET range == OrderedWorldRange(world_start, world_end)
      old == e.selected_callstack_events_per_thread_
  IN  { LET selected_callstack_events ==
              IF thread_id = kAllThreadsFakeTid
              THEN GetCallstackEventsInTimeRange(e, t0, t1)
              ELSE GetCallstackEventsOfTidInTimeRange(e, thread_id, t0, t1)
            new == SelectionMap(selected_callstack_events)
        IN  [engine |-> NeedsUpdate([e EXCEPT !.selected_callstack_events_per_thread_ =
                          [tid \in DOMAIN old \cup DOMAIN new |->
                             (IF tid \in DOMAIN old THEN old[tid] ELSE << >>)
                               \o (IF tid \in DOMAIN new THEN new[tid] ELSE << >>)]]),
             returned |-> selected_callstack_events] :
        t0 \in GetTickFromWorld(e, range[1]), t1 \in GetTickFromWorld(e, range[2]) }

(* SelectEvents: the engines it may leave, each with the list it returns. *)
SelectEvents(e, world_start, world_end, thread_id) ==
  LET range == OrderedWorldRange(world_start, world_end)
  IN  { LET selected_callstack_events ==
              IF thread_id = kAllThreadsFakeTid
              THEN GetCallstackEventsInTimeRange(e, t0, t1)
              ELSE GetCallstackEventsOfTidInTimeRange(e, thread_id, t0, t1)
        IN  [engine |-> NeedsUpdate([e EXCEPT !.selected_callstack_events_per_thread_ =
                                       SelectionMap(selected_callstack_events)]),
             returned |-> selected_callstack_events] :
        t0 \in GetTickFromWorld(e, range[1]), t1 \in GetTickFromWorld(e, range[2]) }

---------------------------------------------------------------------------
(* Navigation.  A text box is the place of a timer: the track that holds *)
(* it and its index in the track's chain.                                *)

TextBox(track, index) == [track |-> track, index |-> index]

NullBox == TextBox(Null, 0)

GetTimerInfo(e, text_box) == e.track_state[text_box.track].timers[text_box.index]

(* TimerTrack::GetLeft and GetRight: the neighbours of the box in the  *)
(* chain of the track asked, nullptr for a box the track does not hold. *)
GetLeft(e, track, text_box) ==
  IF text_box.track = track /\ text_box.index > 1
  THEN TextBox(track, text_box.index - 1) ELSE NullBox

GetRight(e, track, text_box) ==
  IF text_box.track = track /\ text_box.index < Len(e.track_state[track].timers)
  THEN TextBox(track, text_box.index + 1) ELSE NullBox

(* Lines 1012-1032: the engine left and the box returned.  The track asked *)
(* is the Gpu track of the timeline hash for a GpuActivity timer, and the  *)
(* thread track of the thread id for every other timer.                    *)
FindPrevious(e, from) ==
  LET timer_info == GetTimerInfo(e, from)
  IN  IF timer_info.type = "kGpuActivity"
      THEN LET e1 == GetOrCreateGpuTrack(e, timer_info.timeline_hash)
           IN  [engine |-> e1,
                returned |-> GetLeft(e1, e1.gpu_tracks_[timer_info.timeline_hash], from)]
      ELSE LET e1 == GetOrCreateThreadTrack(e, timer_info.thread_id)
           IN  [engine |-> e1,
                returned |-> GetLeft(e1, e1.thread_tracks_[timer_info.thread_id], from)]

FindNext(e, from) ==
  LET timer_info == GetTimerInfo(e, from)
  IN  IF timer_info.type = "kGpuActivity"
      THEN LET e1 == GetOrCreateGpuTrack(e, timer_info.timeline_hash)
           IN  [engine |-> e1,
                returned |-> GetRight(e1, e1.gpu_tracks_[timer_info.timeline_hash], from)]
      ELSE LET e1 == GetOrCreateThreadTrack(e, timer_info.thread_id)
           IN  [engine |-> e1,
                returned |-> GetRight(e1, e1.thread_tracks_[timer_info.thread_id], from)]

(* TimerTrack::GetUp and GetDown: the box one depth above or below.  The *)
(* chains of the model have one depth, so there is none.                 *)
GetUp(e, track, text_box) == NullBox

GetDown(e, track, text_box) == NullBox

(* Lines 1034-1054 *)
FindTop(e, from) ==
  LET timer_info == GetTimerInfo(e, from)
  IN  IF timer_info.type = "kGpuActivity"
      THEN LET e1 == GetOrCreateGpuTrack(e, timer_info.timeline_hash)
           IN  [engine |-> e1,
                returned |-> GetUp(e1, e1.gpu_tracks_[timer_info.timeline_hash], from)]
      ELSE LET e1 == GetOrCreateThreadTrack(e, timer_info.thread_id)
           IN  [engine |-> e1,
                returned |-> GetUp(e1, e1.thread_tracks_[timer_info.thread_id], from)]

FindDown(e, from) ==
  LET timer_info == GetTimerInfo(e, from)
  IN  IF timer_info.type = "kGpuActivity"
      THEN LET e1 == GetOrCreateGpuTrack(e, timer_info.timeline_hash)
           IN  [engine |-> e1,
                returned |-> GetDown(e1, e1.gpu_tracks_[timer_info.timeline_hash], from)]
      ELSE LET e1 == GetOrCreateThreadTrack(e, timer_info.thread_id)
           IN  [engine |-> e1,
                returned |-> GetDown(e1, e1.thread_tracks_[timer_info.thread_id], from)]

(* A TimerChain is a list of blocks of BlockSize boxes in the order of  *)
(* arrival; a block knows the least start and the greatest end of its   *)
(* boxes.  A block is [track, first, last].                             *)
BlocksOf(e, track) ==
  LET n == Len(e.track_state[track].timers)
  IN  [k \in 1..((n + BlockSize - 1) \div BlockSize) |->
         [track |-> track, first |-> (k - 1) * BlockSize + 1,
          last |-> Min2(k * BlockSize, n)]]

BlockMinTimestamp(e, block) ==
  SetMin({ e.track_state[block.track].timers[i].start : i \in block.first..block.last })

BlockMaxTimestamp(e, block) ==
  SetMax({ e.track_state[block.track].timers[i].end : i \in block.first..block.last })

(* A test that holds only for a block whose times all lie in [min, max] *)
IntersectsInside(e, block, min, max) ==
  min <= BlockMinTimestamp(e, block) /\ max >= BlockMaxTimestamp(e, block)

(* TimerBlock::Intersects *)
Intersects(e, block, min, max) ==
  min <= BlockMaxTimestamp(e, block) /\ max >= BlockMinTimestamp(e, block)

RECURSIVE ConcatBlocks(_, _)
ConcatBlocks(e, tracks) ==
  IF tracks = << >> THEN << >>
  ELSE BlocksOf(e, Head(tracks)) \o ConcatBlocks(e, Tail(tracks))

(* Lines 434-440: the blocks of the chains of all thread tracks *)
GetAllThreadTrackTimerChains(e) == ConcatBlocks(e, MapValues(e.thread_tracks_))

(* Lines 502-511 and 527-536: the boxes i..last of a block against the *)
(* best box so far; best is [box, time].                               *)
RECURSIVE ScanBlock(_, _, _, _, _, _, _, _)
ScanBlock(e, block, i, function_address, current_time, thread_ID, forward, best) ==
  IF i > block.last THEN best
  ELSE LET timer_info == e.track_state[block.track].timers[i]
           box_time == timer_info.end
           better == /\ timer_info.function_address = function_address
                     /\ thread_ID = {} \/ timer_info.thread_id \in thread_ID
                     /\ IF forward
                        THEN box_time > current_time /\ best.time > box_time
                        ELSE box_time < current_time /\ best.time < box_time
       IN  ScanBlock(e, block, i + 1, function_address, current_time, thread_ID, forward,
                     IF better THEN [box |-> TextBox(block.track, i), time |-> box_time]
                     ELSE best)

(* Lines 497-512 and 522-537: a block is scanned only if it intersects *)
(* the times between the best box so far and current_time.            *)
RECURSIVE ScanChains(_, _, _, _, _, _, _)
ScanChains(e, blocks, function_address, current_time, thread_ID, forward, best) ==
  IF blocks = << >> THEN best.box
  ELSE LET block == Head(blocks)
           scanned == IF forward THEN Intersects(e, block, current_time, best.time)
                      ELSE Intersects(e, block, best.time, current_time)
       IN  ScanChains(e, Tail(blocks), function_address, current_time, thread_ID, forward,
                      IF scanned
                      THEN ScanBlock(e, block, block.first, function_address, current_time,
                                     thread_ID, forward, best)
                      ELSE best)

(* thread_ID is the empty set for std::nullopt, and { tid } otherwise. *)
FindPreviousFunctionCall(e, function_address, current_time, thread_ID) ==
  ScanChains(e, GetAllThreadTrackTimerChains(e), function_address, current_time, thread_ID,
             FALSE, [box |-> NullBox, time |-> 0])

FindNextFunctionCall(e, function_address, current_time, thread_ID) ==
  ScanChains(e, GetAllThreadTrackTimerChains(e), function_address, current_time, thread_ID,
             TRUE, [box |-> NullBox, time |-> UInt64Max])

(* TimeGraph.h: the default of HorizontallyMoveIntoView's distance *)
DefaultDistance == << 3, 10 >>

(* Lines 287-302: the thread track of the box is looked up, created if *)
(* absent, the canvas is scrolled to it, and an update is asked for.   *)
VerticallyMoveIntoView(e, text_box) ==
  NeedsUpdate(GetOrCreateThreadTrack(e, GetTimerInfo(e, text_box).thread_id))

(* Lines 486-490 *)
Select(e, text_box) ==
  LET timer_info == GetTimerInfo(e, text_box)
      e1 == [e EXCEPT !.selected_text_box = text_box]
      e2 == HorizontallyMoveIntoView(e1, "kPartlyVisible", timer_info.start, timer_info.end,
                                     DefaultDistance)
  IN  VerticallyMoveIntoView(e2, text_box)

(* Lines 961-1005: the engine the search leaves and the goal it returns *)
FindGoal(e, from, jump_direction, jump_scope) ==
  LET timer_info == GetTimerInfo(e, from)
      function_address == timer_info.function_address
      current_time == timer_info.end
      thread_id == timer_info.thread_id
  IN  CASE jump_direction = "kPrevious" /\ jump_scope = "kSameDepth" -> FindPrevious(e, from)
        [] jump_direction = "kPrevious" /\ jump_scope = "kSameFunction" ->
             [engine |-> e,
              returned |-> FindPreviousFunctionCall(e, function_address, current_time, {})]
        [] jump_direction = "kPrevious" /\ jump_scope = "kSameThreadSameFunction" ->
             [engine |-> e,
              returned |-> FindPreviousFunctionCall(e, function_address, current_time,
                                                    {thread_id})]
        [] jump_direction = "kNext" /\ jump_scope = "kSameDepth" -> FindNext(e, from)
        [] jump_direction = "kNext" /\ jump_scope = "kSameFunction" ->
             [engine |-> e,
              returned |-> FindNextFunctionCall(e, function_address, current_time, {})]
        [] jump_direction = "kNext" /\ jump_scope = "kSameThreadSameFunction" ->
             [engine |-> e,
              returned |-> FindNextFunctionCall(e, function_address, current_time,
                                                {thread_id})]
        [] jump_direction = "kTop" -> FindTop(e, from)
        [] jump_direction = "kDown" -> FindDown(e, from)

(* Lines 959-1010 *)
JumpToNeighborBox(e, from, jump_direction, jump_scope) ==
  IF from = NullBox THEN e
  ELSE LET out == FindGoal(e, from, jump_direction, jump_scope)
       IN  IF out.returned # NullBox THEN Select(out.engine, out.returned)
           ELSE out.engine

---------------------------------------------------------------------------
(* Inputs *)

TimerInfo(type, start, end, thread_id, processor, timeline_hash) ==
  [type |-> type, start |-> start, end |-> end, thread_id |-> thread_id,
   processor |-> processor, timeline_hash |-> timeline_hash, function_address |-> 0]

(* The timer of a call of the function at function_address *)
CallOf(timer_info, function_address) ==
  [timer_info EXCEPT !.function_address = function_address]

Function(orbit_type, event_type, name) ==
  [orbit_type |-> orbit_type, event_type |-> event_type, name |-> name]

NoFunction == Function("nullptr", "none", 0)

Spans == { sp \in Ticks \X Ticks : sp[1] <= sp[2] }

(* Timers and functions of the registry specification *)
RegTimers ==
  { TimerInfo("kNone", 2 * TickStep, 3 * TickStep, 1, 0, 0),
    TimerInfo("kNone", TickStep, 2 * TickStep, 2, 0, 0),
    TimerInfo("kCoreActivity", TickStep, TickStep, 1, 2, 0),
    TimerInfo("kGpuActivity", TickStep, MaxTickIdx * TickStep, 1, 0, 1) }

RegFunctions ==
  { NoFunction,
    Function("kOrbitTrackValue", "kTrackInt", 1),
    Function("kOrbitTrackValue", "kUnsupported", 1),
    Function("kOrbitTimerStartAsync", "none", 1),
    Function("kOrbitTimerStopAsync", "none", 1) }

RegInputs ==
  { in \in RegTimers \X RegFunctions : in[2] # NoFunction => in[1].type = "kNone" /\ in[1].thread_id = 1 }

CallstackEvents == { [thread_id |-> 2, time |-> 2 * TickStep] }

(* Samples of threads 1 and 2 for the selection after a selection *)
SampledEvents ==
  { [thread_id |-> 1, time |-> 2 * TickStep],
    [thread_id |-> 2, time |-> 2 * TickStep],
    [thread_id |-> 2, time |-> 3 * TickStep] }

ThreadFilters == { << >>, << "a", " ", "b" >> }

(* Timers and arguments of the window specification *)
ViewSpans ==
  { sp \in Spans : /\ sp[2] = MaxTickIdx * TickStep
                   /\ sp[1] \in {TickStep, (MaxTickIdx - 1) * TickStep} }

ViewInputs ==
  { << TimerInfo("kNone", sp[1], sp[2], 1, 0, 0), NoFunction >> : sp \in ViewSpans }

(* Ticks of the capture handed to the conversions *)
ConvTicks(e) ==
  { t \in { e.capture_min_timestamp_, e.capture_min_timestamp_ + SubStep,
            e.capture_max_timestamp_ } :
      e.capture_min_timestamp_ <= t /\ t <= e.capture_max_timestamp_ }

(* Timers of the navigation specification, and the boxes of an engine *)
NavInputs == { in \in RegInputs : in[2] = NoFunction }

TextBoxes(e) ==
  { TextBox(t, i) : t \in DOMAIN e.track_state, i \in 1..MaxTimers } \cap
  { b \in [track : DOMAIN e.track_state, index : 1..MaxTimers] :
      b.index <= Len(e.track_state[b.track].timers) }

(* Calls of functions 1 and 2 on threads 1 and 2, one of them beginning *)
(* and ending at tick 0, and the queries of the function-call           *)
(* specification                                                        *)
CallInputs ==
  { << CallOf(TimerInfo("kNone", sp[1] * TickStep, sp[2] * TickStep, c[1], 0, 0), c[2]),
       NoFunction >> :
      sp \in { << 1, 2 >>, << 2, 3 >>, << 3, 4 >> }, c \in { << 1, 1 >> } }
  \cup
  { << CallOf(TimerInfo("kNone", 0, 0, 1, 0, 0), 1), NoFunction >>,
    << CallOf(TimerInfo("kNone", TickStep, 2 * TickStep, 2, 0, 0), 1), NoFunction >>,
    << CallOf(TimerInfo("kNone", 2 * TickStep, 3 * TickStep, 1, 0, 0), 2), NoFunction >> }

CallTimes == { i * TickStep + d : i \in 2..MaxTickIdx, d \in { 0, 1 } }
CallThreads == { {}, {1} }

(* Timers of the extent specification: one of them starts at tick 0 *)
ExtentInputs ==
  { << TimerInfo("kNone", 0, TickStep, 1, 0, 0), NoFunction >>,
    << TimerInfo("kNone", TickStep, 2 * TickStep, 2, 0, 0), NoFunction >>,
    << TimerInfo("kGpuActivity", 2 * TickStep, 3 * TickStep, 1, 0, 1), NoFunction >> }

(* Timers, directions and scopes of the jump specification; the scope is *)
(* read for kPrevious and kNext only.                                   *)
JumpInputs == { in \in NavInputs : in[1].type = "kNone" }

JumpDirections == { "kPrevious", "kNext", "kTop", "kDown" }
JumpScopes == { "kSameDepth", "kSameFunction", "kSameThreadSameFunction" }

JumpRequests ==
  { rq \in JumpDirections \X JumpScopes :
      rq[1] \in {"kTop", "kDown"} => rq[2] = "kSameDepth" }

(* Timers, world coordinates and thread scopes of the selection specification *)
SelectInputs == { in \in ViewInputs : in[1].start = TickStep }

WorldXs == { CanvasWorldTopLeftX, CanvasWorldTopLeftX + CanvasWorldWidth }
SelectScopes == { kAllThreadsFakeTid, 2 }

(* Tick ranges and windows (in microseconds) inside a capture that spans *)
(* the ticks TickStep to MaxTickIdx * TickStep                          *)
InnerSpans == { sp \in Spans : sp[1] >= TickStep /\ sp[2] = sp[1] + TickStep }
InnerWindows == { << 0, TickStep >>, << 2 * TickStep, 3 * TickStep >> }

Ratios == { << 1, 2 >>, << 1, 1 >> }
Distances == { << 3, 10 >>, << 1, 1 >> }
VisibilityTypes == { "kPartlyVisible", "kFullyVisible" }

---------------------------------------------------------------------------
(* last_op records the window operations only. *)
Op(name) == [op |-> name, args |-> << >>]
NoOp == Op("none")

(* The state after construction (lines 41-47) *)

Init ==
  LET t0 == Handle("scheduler", 0, 0)
      t1 == Handle("thread", kAllThreadsFakeTid, 0)
  IN  /\ tracks_ = << t0, t1 >>
      /\ scheduler_track_ = t0
      /\ process_track_ = t1
      /\ thread_tracks_ = MapPut(<< >>, kAllThreadsFakeTid, t1)
      /\ gpu_tracks_ = << >>
      /\ graph_tracks_ = << >>
      /\ async_tracks_ = << >>
      /\ track_state = [t \in {t0, t1} |-> NewTrackState]
      /\ thread_count_map_ = << >>
      /\ cores_seen_ = {}
      /\ event_count_ = << >>
      /\ sorted_tracks_ = << >>
      /\ thread_filter_ = << >>
      /\ last_thread_reorder_ = 0
      /\ capture_min_timestamp_ = UInt64Max
      /\ capture_max_timestamp_ = 0
      /\ min_time_us_ = 0
      /\ max_time_us_ = 0
      /\ time_window_us_ = 0
      /\ needs_update_primitives_ = FALSE
      /\ needs_redraw_ = TRUE
      /\ generation = 0
      /\ unsorted_since_clear = FALSE
      /\ callstack_data = {}
      /\ is_capturing = FALSE
      /\ async_start_by_id = << >>
      /\ world_start_x_ = 0
      /\ world_width_ = 0
      /\ selected_callstack_events_per_thread_ = << >>
      /\ iterator_text_boxes_ = << >>
      /\ iterator_functions_ = << >>
      /\ selected_text_box = NullBox
      /\ delivered = {}
      /\ last_op = NoOp
      /\ steps = 0
      /\ mutex_ = "none"
      /\ pc = [producer |-> "idle", consumer |-> "idle"]
      /\ local = [producer |-> << >>, consumer |-> << >>]

---------------------------------------------------------------------------
(* Actions: one call of an operation, by one thread, run to its end *)

Idle == pc.producer = "idle" /\ pc.consumer = "idle"

Threads == UNCHANGED << mutex_, pc, local >>

Count(limit) == steps < limit /\ steps' = steps + 1

(* The timers held by the track objects alive *)
RECURSIVE SumLen(_, _)
SumLen(f, S) ==
  IF S = {} THEN 0
  ELSE LET x == CHOOSE y \in S : TRUE IN Len(f[x].timers) + SumLen(f, S \ {x})

TimersAlive == SumLen(track_state, DOMAIN track_state)

DoProcessTimer(inputs, limit) ==
  \E in \in inputs :
    /\ Idle
    /\ TimersAlive < MaxTimers
    /\ Install(ProcessTimer(Eng, in[1], in[2]))
    /\ delivered' = delivered \cup {in[1].end}
    /\ last_op' = NoOp
    /\ Count(limit) /\ Threads

DoClear(limit) ==
  /\ Idle
  /\ generation < MaxClears
  /\ Install(Clear(Eng))
  /\ delivered' = {}
  /\ last_op' = NoOp
  /\ Count(limit) /\ Threads

Call(e) ==
  /\ Idle
  /\ Install(e)
  /\ last_op' = NoOp
  /\ UNCHANGED delivered /\ Count(MaxSteps) /\ Threads

ViewCall(e, op) ==
  /\ Idle
  /\ Install(e)
  /\ last_op' = op
  /\ UNCHANGED delivered /\ Count(MaxViewSteps) /\ Threads

DoGetOrCreateSchedulerTrack == Call(GetOrCreateSchedulerTrack(Eng))

DoGetOrCreateThreadTrack ==
  \E tid \in {2} :
    Cardinality(DOMAIN track_state) < MaxTracks /\ Call(GetOrCreateThreadTrack(Eng, tid))

DoGetOrCreateGpuTrack ==
  \E h \in {1} :
    Cardinality(DOMAIN track_state) < MaxTracks /\ Call(GetOrCreateGpuTrack(Eng, h))

DoGetOrCreateGraphTrack ==
  \E n \in {1} :
    Cardinality(DOMAIN track_state) < MaxTracks /\ Call(GetOrCreateGraphTrack(Eng, n))

DoGetOrCreateAsyncTrack ==
  \E n \in {1} :
    Cardinality(DOMAIN track_state) < MaxTracks /\ Call(GetOrCreateAsyncTrack(Eng, n))

DoUpdateCaptureMinMaxTimestamps ==
  Call(UpdateCaptureMinMaxTimestamps(Eng))

DoSortTracks == \E e \in SortTracks(Eng) : Call(e)

DoUpdatePrimitives == \E e \in UpdatePrimitives(Eng) : Call(e)

DoDraw == \E picking \in BOOLEAN : \E e \in Draw(Eng, picking) : Call(e)

DoSetThreadFilter ==
  \E f \in ThreadFilters : f # thread_filter_ /\ Call(SetThreadFilter(Eng, f))

(* The environment: a callstack event is sampled, a capture starts or stops, *)
(* time passes on the stopwatch.                                            *)
AddCallstackEvent ==
  \E ev \in CallstackEvents \ callstack_data :
    /\ Cardinality(callstack_data) < MaxEvents
    /\ Call([Eng EXCEPT !.callstack_data = @ \cup {ev}])

ToggleCapture == Call([Eng EXCEPT !.is_capturing = ~@])

AdvanceTime ==
  \E ms \in {kReorderIntervalMs, kReorderIntervalMs + 1} :
    /\ ms > last_thread_reorder_
    /\ Call([Eng EXCEPT !.last_thread_reorder_ = ms])

DoZoomAll == ViewCall(ZoomAll(Eng), Op("ZoomAll"))

DoZoom == \E sp \in ViewSpans : ViewCall(Zoom(Eng, sp[1], sp[2]), Op("Zoom"))

DoZoomTime ==
  \E z \in {-1, 1}, r \in Ratios : ViewCall(ZoomTime(Eng, z, r), Op("ZoomTime"))

DoSetMinMax ==
  \E sp \in { x \in Spans : /\ x[1] \in {0, MaxTickIdx * TickStep}
                            /\ x[2] >= (MaxTickIdx - 1) * TickStep } :
    ViewCall(SetMinMax(Eng, sp[1], sp[2]), Op("SetMinMax"))

DoPanTime ==
  \E x \in {0, 2}, t \in {0, TickStep} :
    ViewCall(PanTime(Eng, 1, x, 2, t), Op("PanTime"))

DoOnDrag == \E r \in Ratios : ViewCall(OnDrag(Eng, r), Op("OnDrag"))

DoHorizontallyMoveIntoView ==
  \E v \in VisibilityTypes, sp \in ViewSpans, d \in Distances :
    ViewCall(HorizontallyMoveIntoView(Eng, v, sp[1], sp[2], d),
             [op |-> "HorizontallyMoveIntoView", args |-> << v, sp[1], sp[2], d >>])

(* Windows and ranges that leave room on both sides inside the capture *)
SetMinMaxInside ==
  \E w \in InnerWindows : ViewCall(SetMinMax(Eng, w[1], w[2]), Op("SetMinMax"))

MoveIntoViewInside ==
  \E v \in VisibilityTypes, sp \in InnerSpans, d \in Distances :
    ViewCall(HorizontallyMoveIntoView(Eng, v, sp[1], sp[2], d),
             [op |-> "HorizontallyMoveIntoView", args |-> << v, sp[1], sp[2], d >>])

ZoomInside ==
  \E sp \in InnerSpans :
    ViewCall(Zoom(Eng, sp[1], sp[2]), [op |-> "Zoom", args |-> << sp[1], sp[2] >>])

(* A caller converts a tick of the capture to microseconds, and converts *)
(* the microseconds it got back to a tick.                               *)
DoGetUsFromTick ==
  \E time \in ConvTicks(Eng) :
    ViewCall(Eng, [op |-> "GetUsFromTick",
                   args |-> << time, GetUsFromTick(Eng, time) >>])

DoGetTickFromUs ==
  /\ last_op.op = "GetUsFromTick"
  /\ \E tick \in GetTickFromUs(Eng, last_op.args[2]) :
       ViewCall(Eng, [op |-> "GetTickFromUs",
                      args |-> << last_op.args[1], last_op.args[2], tick >>])

(* The operations of the selection specification: steps counts its *)
(* ingestions and Clear calls only.                                 *)
SelectCall(e, op) ==
  /\ Idle
  /\ Install(e)
  /\ last_op' = op
  /\ UNCHANGED << delivered, steps >> /\ Threads

SampleCallstackEvent ==
  \E ev \in CallstackEvents \ callstack_data :
    /\ Cardinality(callstack_data) < MaxEvents
    /\ SelectCall([Eng EXCEPT !.callstack_data = @ \cup {ev}], NoOp)

ZoomAllOnce == SelectCall(ZoomAll(Eng), Op("ZoomAll"))

UpdatePrimitivesOnce ==
  \E e \in UpdatePrimitives(Eng) : SelectCall(e, Op("UpdatePrimitives"))

DoSelectEvents ==
  \E a \in WorldXs, b \in WorldXs, tid \in SelectScopes :
    \E out \in SelectEvents(Eng, a, b, tid) :
      SelectCall(out.engine,
                 [op |-> "SelectEvents", args |-> << a, b, tid, out.returned >>])

(* The samples of the capture arrive in any order. *)
SampleEvent ==
  \E ev \in SampledEvents \ callstack_data :
    /\ Cardinality(callstack_data) < MaxSampled
    /\ SelectCall([Eng EXCEPT !.callstack_data = @ \cup {ev}], NoOp)

(* SelectEvents, with the selection map it found *)
DoSelectEventsAgain ==
  \E a \in WorldXs, b \in WorldXs, tid \in SelectScopes :
    \E out \in SelectEvents(Eng, a, b, tid) :
      SelectCall(out.engine,
                 [op |-> "SelectEvents",
                  args |-> << a, b, tid, out.returned,
                              selected_callstack_events_per_thread_ >>])

DoGetWorldFromTick ==
  \E a_Time \in Ticks :
    SelectCall(Eng, [op |-> "GetWorldFromTick",
                     args |-> << a_Time, GetWorldFromTick(Eng, a_Time) >>])

DoSetIteratorOverlayData ==
  \E t \in DOMAIN track_state :
    /\ track_state[t].timers # << >>
    /\ SelectCall(SetIteratorOverlayData(Eng, MapPut(<< >>, 1, track_state[t].timers[1]),
                                            MapPut(<< >>, 1, 1)),
                  Op("SetIteratorOverlayData"))

(* A caller asks for the right neighbour of a box, and for the left *)
(* neighbour of the box it got back.                               *)
DoFindNext ==
  \E from \in TextBoxes(Eng) :
    LET out == FindNext(Eng, from)
    IN  SelectCall(out.engine, [op |-> "FindNext", args |-> << from, out.returned >>])

DoFindPrevious ==
  /\ last_op.op = "FindNext"
  /\ last_op.args[2] # NullBox
  /\ LET out == FindPrevious(Eng, last_op.args[2])
     IN  SelectCall(out.engine,
                    [op |-> "FindPrevious",
                     args |-> << last_op.args[1], last_op.args[2], out.returned >>])

DoFindPreviousFunctionCall ==
  \E current_time \in CallTimes, thread_ID \in CallThreads :
    SelectCall(Eng, [op |-> "FindPreviousFunctionCall",
                     args |-> << 1, current_time, thread_ID,
                                 FindPreviousFunctionCall(Eng, 1, current_time, thread_ID) >>])

DoFindNextFunctionCall ==
  \E current_time \in CallTimes, thread_ID \in CallThreads :
    SelectCall(Eng, [op |-> "FindNextFunctionCall",
                     args |-> << 1, current_time, thread_ID,
                                 FindNextFunctionCall(Eng, 1, current_time, thread_ID) >>])

(* A key press: the caller hands the selected box, or any other box alive, *)
(* or no box.                                                              *)
DoJumpToNeighborBox ==
  \E from \in TextBoxes(Eng) \cup {NullBox}, rq \in JumpRequests :
    ViewCall(JumpToNeighborBox(Eng, from, rq[1], rq[2]),
             [op |-> "JumpToNeighborBox", args |-> << from, rq[1], rq[2] >>])

---------------------------------------------------------------------------
(* Specifications *)

(* The registry, ingestion and the draw order *)
Next ==
  \/ DoProcessTimer(RegInputs, MaxSteps)
  \/ DoClear(MaxSteps)
  \/ DoGetOrCreateSchedulerTrack
  \/ DoGetOrCreateThreadTrack
  \/ DoGetOrCreateGpuTrack
  \/ DoGetOrCreateGraphTrack
  \/ DoGetOrCreateAsyncTrack
  \/ DoUpdateCaptureMinMaxTimestamps
  \/ DoSortTracks
  \/ DoUpdatePrimitives
  \/ DoDraw
  \/ DoSetThreadFilter
  \/ AddCallstackEvent
  \/ ToggleCapture
  \/ AdvanceTime

Spec == Init /\ [][Next]_vars

(* Ingestion and the draw order *)
NextSort ==
  \/ DoProcessTimer(RegInputs, MaxSteps)
  \/ DoClear(MaxSteps)
  \/ DoSortTracks
  \/ DoDraw
  \/ DoSetThreadFilter
  \/ AddCallstackEvent
  \/ ToggleCapture

SpecSort == Init /\ [][NextSort]_vars

(* Ingestion and the visible window *)
NextView ==
  \/ DoProcessTimer(ViewInputs, MaxViewSteps)
  \/ DoClear(MaxViewSteps)
  \/ DoZoomAll
  \/ DoZoom
  \/ DoZoomTime
  \/ DoSetMinMax
  \/ DoPanTime
  \/ DoOnDrag
  \/ DoHorizontallyMoveIntoView

SpecView == Init /\ [][NextView]_vars

(* Ingestion, zooming and drawing *)
NextZoom ==
  \/ DoProcessTimer(ViewInputs, MaxViewSteps)
  \/ DoZoomAll
  \/ DoSetMinMax
  \/ DoZoomTime
  \/ DoDraw

SpecZoom == Init /\ [][NextZoom]_vars

(* One capture, windows inside it, moving into view and drawing *)
NextMove ==
  \/ DoProcessTimer(SelectInputs, MaxViewSteps)
  \/ DoZoomAll
  \/ SetMinMaxInside
  \/ MoveIntoViewInside
  \/ ZoomInside
  \/ DoDraw

SpecMove == Init /\ [][NextMove]_vars

(* Ingestion, the visible window and the time conversions *)
NextTime ==
  \/ DoProcessTimer(ViewInputs, MaxViewSteps)
  \/ DoZoomAll
  \/ DoSetMinMax
  \/ DoPanTime
  \/ DoGetUsFromTick
  \/ DoGetTickFromUs

SpecTime == Init /\ [][NextTime]_vars

(* Ingestion, selection and the iterator overlay *)
NextSelect ==
  \/ DoProcessTimer(SelectInputs, MaxViewSteps)
  \/ DoClear(MaxViewSteps)
  \/ SampleCallstackEvent
  \/ ZoomAllOnce
  \/ UpdatePrimitivesOnce
  \/ DoSelectEvents
  \/ DoSetIteratorOverlayData

SpecSelect == Init /\ [][NextSelect]_vars

(* Ingestion, the draw order and jumps between boxes *)
NextJump ==
  \/ DoProcessTimer(JumpInputs, MaxViewSteps)
  \/ DoClear(MaxViewSteps)
  \/ DoSortTracks
  \/ DoJumpToNeighborBox

SpecJump == Init /\ [][NextJump]_vars

(* Ingestion, callstack events and the capture extent *)
NextExtent ==
  \/ DoProcessTimer(ExtentInputs, MaxSteps)
  \/ DoClear(MaxSteps)
  \/ AddCallstackEvent
  \/ DoUpdateCaptureMinMaxTimestamps

SpecExtent == Init /\ [][NextExtent]_vars

(* Ingestion in any order and the search of function calls *)
NextCall ==
  \/ DoProcessTimer(CallInputs, MaxViewSteps)
  \/ DoFindPreviousFunctionCall
  \/ DoFindNextFunctionCall

SpecCall == Init /\ [][NextCall]_vars

(* Ingestion, the visible window, drawing and the world coordinate of a tick *)
NextWorld ==
  \/ DoProcessTimer(ViewInputs, MaxViewSteps)
  \/ DoZoomAll
  \/ DoSetMinMax
  \/ DoZoomTime
  \/ DoDraw
  \/ DoGetWorldFromTick

SpecWorld == Init /\ [][NextWorld]_vars

(* Ingestion, every way to create a track, the draw order and Clear *)
NextRegistry ==
  \/ DoProcessTimer(RegInputs, MaxSteps)
  \/ DoClear(MaxSteps)
  \/ DoGetOrCreateSchedulerTrack
  \/ DoGetOrCreateThreadTrack
  \/ DoGetOrCreateGpuTrack
  \/ DoGetOrCreateGraphTrack
  \/ DoGetOrCreateAsyncTrack
  \/ DoSortTracks
  \/ AddCallstackEvent

SpecRegistry == Init /\ [][NextRegistry]_vars

(* Ingestion of timers and samples, and selections one after another *)
NextEvents ==
  \/ DoProcessTimer(SelectInputs, MaxViewSteps)
  \/ SampleEvent
  \/ ZoomAllOnce
  \/ UpdatePrimitivesOnce
  \/ DoSelectEventsAgain

SpecEvents == Init /\ [][NextEvents]_vars

(* Ingestion and same-depth navigation *)
NextNav ==
  \/ DoProcessTimer(NavInputs, MaxViewSteps)
  \/ DoFindNext
  \/ DoFindPrevious

SpecNav == Init /\ [][NextNav]_vars

---------------------------------------------------------------------------
(* Two threads: the capture thread (producer) delivers timers through      *)
(* ProcessTimer while the render thread (consumer) runs UpdatePrimitives.  *)
(* Each step is one access to the shared state, or one critical section of *)
(* mutex_.  A thread that needs mutex_ waits until it is free.             *)

ConcInputs ==
  { << TimerInfo("kNone", 2 * TickStep, 3 * TickStep, 1, 0, 0), NoFunction >>,
    << TimerInfo("kGpuActivity", TickStep, MaxTickIdx * TickStep, 1, 0, 1), NoFunction >> }

At(thread, from, to, loc) ==
  /\ pc[thread] = from
  /\ pc' = [pc EXCEPT ![thread] = to]
  /\ local' = [local EXCEPT ![thread] = loc]
  /\ last_op' = NoOp

(* ProcessTimer, line 324: the comparison with capture_max_timestamp_ *)
PtCompare ==
  \E in \in ConcInputs :
    /\ TimersAlive + (IF pc.producer = "idle" THEN 0 ELSE 1) < MaxTimers
    /\ At("producer", "idle",
          IF in[1].end > capture_max_timestamp_ THEN "pt_assign" ELSE "pt_lock",
          [timer_info |-> in[1]])
    /\ Install(Eng)
    /\ delivered' = delivered \cup {in[1].end}
    /\ Count(MaxConcCalls)
    /\ UNCHANGED mutex_

(* Line 325 *)
PtAssign ==
  /\ At("producer", "pt_assign", "pt_lock", local.producer)
  /\ Install([Eng EXCEPT !.capture_max_timestamp_ = local.producer.timer_info.end])
  /\ UNCHANGED << delivered, steps, mutex_ >>

(* Lines 334 and 337, GetOrCreate*Track: the ScopeLock is taken *)
PtLock ==
  /\ mutex_ = "none"
  /\ At("producer", "pt_lock", "pt_get_or_create", local.producer)
  /\ mutex_' = "producer"
  /\ Install(Eng)
  /\ UNCHANGED << delivered, steps >>

(* GetOrCreate*Track: the lookup, the insertion, and the lock released *)
PtGetOrCreate ==
  /\ At("producer", "pt_get_or_create", "pt_on_timer", local.producer)
  /\ Install(GetOrCreateTrackOf(Eng, local.producer.timer_info))
  /\ mutex_' = "none"
  /\ UNCHANGED << delivered, steps >>

(* Lines 335 and 343-349 *)
PtOnTimer ==
  /\ At("producer", "pt_on_timer", "pt_needs_update", local.producer)
  /\ Install(DispatchTimer(Eng, local.producer.timer_info))
  /\ UNCHANGED << delivered, steps, mutex_ >>

(* Line 352 *)
PtNeedsUpdate ==
  /\ At("producer", "pt_needs_update", "idle", << >>)
  /\ Install(NeedsUpdate(Eng))
  /\ UNCHANGED << delivered, steps, mutex_ >>

(* UpdatePrimitives, line 554, in UpdateMaxTimeStamp line 443 *)
UpCompare ==
  /\ At("consumer", "idle",
        IF CallstackMaxTime(Eng) > capture_max_timestamp_ THEN "up_assign" ELSE "up_sort",
        [a_Time |-> CallstackMaxTime(Eng)])
  /\ Install(Eng)
  /\ Count(MaxConcCalls)
  /\ UNCHANGED << delivered, mutex_ >>

(* Line 444 *)
UpAssign ==
  /\ At("consumer", "up_assign", "up_sort", local.consumer)
  /\ Install([Eng EXCEPT !.capture_max_timestamp_ = local.consumer.a_Time])
  /\ UNCHANGED << delivered, steps, mutex_ >>

(* Lines 556-558 and SortTracks, lines 861-912: every GetOrCreateThreadTrack in *)
(* it takes and releases mutex_.                                          *)
UpSort ==
  /\ mutex_ = "none"
  /\ LET e == CountEvents([Eng EXCEPT !.time_window_us_ = max_time_us_ - min_time_us_,
                                     !.world_start_x_ = CanvasWorldTopLeftX,
                                     !.world_width_ = CanvasWorldWidth])
     IN  IF ReorderIsDue(e)
         THEN \E a \in ReverseValueSort(e.thread_count_map_),
                 b \in ReverseValueSort(e.event_count_) :
                LET allThreadIds == AllThreadIds(e, a, b)
                    e1 == GetOrCreateThreadTracks(e, allThreadIds)
                IN  /\ Install(e1)
                    /\ At("consumer", "up_sort", "up_iterate",
                          [sortedThreadIds |-> SortedThreadIds(e1, allThreadIds)])
         ELSE /\ Install(e)
              /\ At("consumer", "up_sort", "up_tracks", << >>)
  /\ UNCHANGED << delivered, steps, mutex_ >>

(* Lines 914-934: the loops over gpu_tracks_, graph_tracks_ and *)
(* async_tracks_, which take no lock.                           *)
UpIterate ==
  /\ At("consumer", "up_iterate", "up_threads", local.consumer)
  /\ Install([Eng EXCEPT !.sorted_tracks_ = LeadingTracks(Eng)])
  /\ UNCHANGED << delivered, steps, mutex_ >>

(* Lines 936-949 *)
UpThreads ==
  /\ mutex_ = "none"
  /\ At("consumer", "up_threads", "up_tracks", << >>)
  /\ LET e1 == GetOrCreateThreadTracks(Eng, local.consumer.sortedThreadIds)
     IN  Install(ReleaseDead(
           [e1 EXCEPT !.sorted_tracks_ = @ \o TrailingTracks(e1, local.consumer.sortedThreadIds),
                      !.last_thread_reorder_ = 0]))
  /\ UNCHANGED << delivered, steps, mutex_ >>

(* Lines 566-570: every track of the draw order rebuilds its primitives *)
(* from the timers it holds.                                            *)
UpTracks ==
  /\ At("consumer", "up_tracks", "up_done",
        [visited |-> [i \in DOMAIN sorted_tracks_ |-> GetNumTimers(Eng, sorted_tracks_[i])]])
  /\ Install(Eng)
  /\ UNCHANGED << delivered, steps, mutex_ >>

(* Line 573 *)
UpDone ==
  /\ At("consumer", "up_done", "idle", << >>)
  /\ Install([Eng EXCEPT !.needs_update_primitives_ = FALSE])
  /\ UNCHANGED << delivered, steps, mutex_ >>

NextConc ==
  \/ PtCompare
  \/ PtAssign
  \/ PtLock
  \/ PtGetOrCreate
  \/ PtOnTimer
  \/ PtNeedsUpdate
  \/ UpCompare
  \/ UpAssign
  \/ UpSort
  \/ UpIterate
  \/ UpThreads
  \/ UpTracks
  \/ UpDone
  \/ AddCallstackEvent
  \/ ToggleCapture

SpecConc == Init /\ [][NextConc]_vars

---------------------------------------------------------------------------
(* Properties of the registry, of ingestion and of the draw order *)

(* C1: as long as no Clear intervenes, capture_max_timestamp_ never        *)
(* decreases from one call to the next and, after each call, is at least   *)
(* the end tick of every record delivered to ProcessTimer so far.          *)
C1_CaptureMaxCoversDelivered ==
  /\ [](\A end \in delivered : end <= capture_max_timestamp_)
  /\ [][generation' = generation => capture_max_timestamp_' >= capture_max_timestamp_]_vars

(* C1, its case: two records of different ends were delivered, so one of   *)
(* the two calls met a capture_max_timestamp_ it had to compare with.      *)
C1_TwoRecordsDelivered ==
  /\ Cardinality(delivered) >= 2
  /\ capture_max_timestamp_ = SetMax(delivered)

(* C2: get-or-create is idempotent for every track variant (a second call  *)
(* with the same identity finds the same track and adds nothing to tracks_ *)
(* or to the variant's map) and no track appears more than once in the     *)
(* draw order sorted_tracks_, whatever the thread filter.                  *)
C2_GetOrCreateIdempotentNoDuplicates ==
  /\ \A tid \in {kAllThreadsFakeTid, 1, 2} :
        LET e1 == GetOrCreateThreadTrack(Eng, tid)
        IN  /\ e1.thread_tracks_[tid] # Null
            /\ GetOrCreateThreadTrack(e1, tid) = e1
  /\ LET e1 == GetOrCreateSchedulerTrack(Eng)
     IN  e1.scheduler_track_ # Null /\ GetOrCreateSchedulerTrack(e1) = e1
  /\ LET e1 == GetOrCreateGpuTrack(Eng, 1)
     IN  e1.gpu_tracks_[1] # Null /\ GetOrCreateGpuTrack(e1, 1) = e1
  /\ LET e1 == GetOrCreateGraphTrack(Eng, 1)
     IN  e1.graph_tracks_[1] # Null /\ GetOrCreateGraphTrack(e1, 1) = e1
  /\ LET e1 == GetOrCreateAsyncTrack(Eng, 1)
     IN  e1.async_tracks_[1] # Null /\ GetOrCreateAsyncTrack(e1, 1) = e1
  /\ NoDuplicates(sorted_tracks_)

(* C3: no empty track is placed in the draw order; in particular, with an  *)
(* empty Gpu track and a non-empty Thread track in the registry, the draw  *)
(* order SortTracks leaves does not contain the Gpu track.                 *)
C3_NoEmptyTrackInDrawOrder ==
  \A t \in Range(sorted_tracks_) : ~IsEmpty(Eng, t)

(* C8 as stated: capture_min_timestamp_ <= capture_max_timestamp_ in every *)
(* reachable state, the one after construction and after Clear included.   *)
C8_MinBelowMaxAlways == capture_min_timestamp_ <= capture_max_timestamp_

(* C8 amended: whenever the capture extent holds data, that is whenever    *)
(* capture_min_timestamp_ is not the value Clear and the constructor leave *)
(* for "no data", capture_min_timestamp_ <= capture_max_timestamp_.        *)
C8_MinBelowMaxWithData ==
  HasCaptureData(Eng) => capture_min_timestamp_ <= capture_max_timestamp_

(* C8, its case: UpdateCaptureMinMaxTimestamps found data, and records of  *)
(* different ends were delivered.                                          *)
C8_ExtentWithData ==
  /\ HasCaptureData(Eng)
  /\ capture_min_timestamp_ < capture_max_timestamp_
  /\ \E end \in delivered : end < capture_max_timestamp_

---------------------------------------------------------------------------
(* Properties of the visible window *)

WindowOps == {"SetMinMax", "Zoom", "ZoomTime", "PanTime", "OnDrag", "HorizontallyMoveIntoView"}

(* C6: in every reachable state, after any sequence of window operations,  *)
(* also when no capture data exists yet, min_time_us_ <= max_time_us_.     *)
C6_WindowOrdered == min_time_us_ <= max_time_us_

(* C7: after any sequence of SetMinMax, Zoom, ZoomTime, PanTime, OnDrag    *)
(* and HorizontallyMoveIntoView calls the window lies in                   *)
(* [0, GetCaptureTimeSpanUs()], also when the window was wider than the    *)
(* capture span before the call.                                           *)
C7_WindowInsideCaptureSpan ==
  last_op.op \in WindowOps =>
    /\ 0 <= min_time_us_
    /\ max_time_us_ <= CaptureTimeSpanUs(UpdateCaptureMinMaxTimestamps(Eng))

(* C9: HorizontallyMoveIntoView with kFullyVisible is idempotent: a second *)
(* call in a row with the same arguments leaves the window the first call  *)
(* left.                                                                   *)
C9_MoveIntoViewIdempotent ==
  [][(/\ last_op.op = "HorizontallyMoveIntoView"
      /\ last_op.args[1] = "kFullyVisible"
      /\ last_op' = last_op
      /\ steps' # steps)
       => (min_time_us_' = min_time_us_ /\ max_time_us_' = max_time_us_)]_vars

(* C10 as stated: after ZoomAll, from any prior state, the window is at    *)
(* most 2,000,000 us wide and starts at or after 0, and with data it ends  *)
(* at the capture's maximum observed time.                                 *)
C10_ZoomAllWindowAlways ==
  last_op.op = "ZoomAll" =>
    /\ max_time_us_ - min_time_us_ <= GNumHistorySeconds * 1000 * 1000
    /\ min_time_us_ >= 0
    /\ HasCaptureData(Eng) => max_time_us_ = CaptureTimeSpanUs(Eng)

(* C10 amended: after a ZoomAll that found capture data the window is at   *)
(* most 2,000,000 us wide, starts at or after 0 and ends at the capture's  *)
(* maximum observed time; a ZoomAll that found no data leaves the window   *)
(* as it was.                                                              *)
C10_ZoomAllWindowWithData ==
  /\ [](last_op.op = "ZoomAll" /\ HasCaptureData(Eng) =>
          /\ max_time_us_ - min_time_us_ <= GNumHistorySeconds * 1000 * 1000
          /\ min_time_us_ >= 0
          /\ max_time_us_ = CaptureTimeSpanUs(Eng))
  /\ [][(last_op'.op = "ZoomAll" /\ steps' # steps /\ ~HasCaptureData(Eng)')
          => UNCHANGED << min_time_us_, max_time_us_ >>]_vars

(* C10, its case: ZoomAll found data spanning less than the history, so    *)
(* that the start of the window had to be clamped to 0.                    *)
C10_ZoomAllClamped ==
  /\ last_op.op = "ZoomAll"
  /\ HasCaptureData(Eng)
  /\ 0 < CaptureTimeSpanUs(Eng)
  /\ CaptureTimeSpanUs(Eng) < GNumHistorySeconds * 1000 * 1000

---------------------------------------------------------------------------
(* Properties of the two threads *)

(* The containers of the registry a thread is changing, and those a thread *)
(* is iterating over, in the current state.                                *)
ContainersMutated ==
  IF pc.producer = "pt_get_or_create"
  THEN IF local.producer.timer_info.type = "kGpuActivity"
       THEN {"tracks_", "gpu_tracks_"} ELSE {"tracks_", "thread_tracks_"}
  ELSE {}

ContainersIterated ==
  IF pc.consumer = "up_iterate" THEN {"gpu_tracks_", "graph_tracks_", "async_tracks_"} ELSE {}

(* C4: registry mutation never interleaves with iteration over the         *)
(* registry: while one thread is inside GetOrCreate*Track, changing        *)
(* tracks_ and a per-variant map, no other thread is iterating over one of *)
(* the containers it changes.                                              *)
C4_MutationExcludesIteration == ContainersMutated \cap ContainersIterated = {}

(* C5: with ProcessTimer on one thread and UpdatePrimitives on another,    *)
(* capture_max_timestamp_ only ever widens: no step makes it decrease, and *)
(* once a call has made its update it is at least the end tick of every    *)
(* record delivered.                                                       *)
C5_CaptureMaxOnlyWidens ==
  /\ [][capture_max_timestamp_' >= capture_max_timestamp_]_vars
  /\ [](pc.producer \notin {"pt_assign"} /\ pc.consumer \notin {"up_assign"}
          => \A end \in delivered : end <= capture_max_timestamp_)


---------------------------------------------------------------------------
(* C11: converting a tick of [capture_min_timestamp_, capture_max_timestamp_] *)
(* to microseconds with GetUsFromTick and back with GetTickFromUs returns    *)
(* the tick up to at most 1 tick, for every visible window.                  *)
C11_RoundTripWithinOneTick ==
  ( /\ last_op.op = "GetTickFromUs"
    /\ capture_min_timestamp_ <= last_op.args[1]
    /\ last_op.args[1] <= capture_max_timestamp_ )
  => /\ last_op.args[3] - last_op.args[1] <= 1
     /\ last_op.args[1] - last_op.args[3] <= 1


---------------------------------------------------------------------------
(* The timers a track of a keyed map holds, none if the key has no track. *)
TimersOf(map, state, key) ==
  IF key \in DOMAIN map THEN state[map[key]].timers ELSE << >>

(* What a ProcessTimer step did with the record timer_info. *)
RoutedToGpuTrack(timer_info) ==
  /\ timer_info.timeline_hash \in DOMAIN gpu_tracks_'
  /\ gpu_tracks_'[timer_info.timeline_hash] \in Range(tracks_')
  /\ TimersOf(gpu_tracks_', track_state', timer_info.timeline_hash)
       = Append(TimersOf(gpu_tracks_, track_state, timer_info.timeline_hash), timer_info)

RoutedToSchedulerTrack(timer_info) ==
  /\ scheduler_track_' = scheduler_track_
  /\ track_state'[scheduler_track_].timers
       = Append(track_state[scheduler_track_].timers, timer_info)
  /\ cores_seen_' = cores_seen_ \cup {timer_info.processor}

RoutedToThreadTrack(timer_info) ==
  /\ timer_info.thread_id \in DOMAIN thread_tracks_'
  /\ thread_tracks_'[timer_info.thread_id] \in Range(tracks_')
  /\ TimersOf(thread_tracks_', track_state', timer_info.thread_id)
       = Append(TimersOf(thread_tracks_, track_state, timer_info.thread_id), timer_info)

(* C12: ProcessTimer routes each record by kind: a GpuActivity record is  *)
(* appended to the Gpu track of its timeline hash (created if absent), a  *)
(* CoreActivity record to the scheduler track, its core id being added to *)
(* cores_seen_, and every other record to the Thread track of its thread  *)
(* id (created if absent).                                                *)
C12_RoutedByKind ==
  [][\A in \in RegInputs :
       DoProcessTimer({in}, MaxSteps) =>
         CASE in[1].type = "kGpuActivity"  -> RoutedToGpuTrack(in[1])
           [] in[1].type = "kCoreActivity" -> RoutedToSchedulerTrack(in[1])
           [] OTHER                        -> RoutedToThreadTrack(in[1])]_vars

(* C12, the scenario: a cleared engine has ingested one function span of *)
(* thread 1 and one CoreActivity record of core 2 that ends earlier.     *)
C12_SpanAndCoreIngested ==
  /\ generation = 1
  /\ delivered = {3 * TickStep, TickStep}
  /\ capture_max_timestamp_ = 3 * TickStep
  /\ Len(TimersOf(thread_tracks_, track_state, 1)) = 1
  /\ Len(track_state[scheduler_track_].timers) = 1
  /\ cores_seen_ = {2}


---------------------------------------------------------------------------
(* The registry holds exactly the two always-present tracks, without timers. *)
RegistryIsFresh ==
  /\ scheduler_track_ # Null /\ process_track_ # Null
  /\ tracks_ = << scheduler_track_, process_track_ >>
  /\ thread_tracks_ = MapPut(<< >>, kAllThreadsFakeTid, process_track_)
  /\ gpu_tracks_ = << >> /\ graph_tracks_ = << >> /\ async_tracks_ = << >>
  /\ \A t \in Range(tracks_) :
       track_state[t].timers = << >> /\ track_state[t].values = << >>

(* C13: after Clear the registry holds exactly the scheduler track and the *)
(* process track, both non-null and empty; thread_count_map_ and           *)
(* cores_seen_ are empty; the capture extent is reset; the iterator        *)
(* overlay is empty; and selected_callstack_events_per_thread_ is empty.   *)
C13_ClearResetsEverything ==
  [][DoClear(MaxViewSteps) =>
       ( /\ RegistryIsFresh
         /\ thread_count_map_ = << >> /\ cores_seen_ = {}
         /\ capture_min_timestamp_ = UInt64Max /\ capture_max_timestamp_ = 0
         /\ iterator_text_boxes_ = << >> /\ iterator_functions_ = << >>
         /\ selected_callstack_events_per_thread_ = << >> )']_vars


---------------------------------------------------------------------------
(* The step left in sorted_tracks_ a draw order rebuilt from the registry. *)
DrawOrderRebuilt ==
  \E a \in ReverseValueSort(CountEvents(Eng).thread_count_map_),
     b \in ReverseValueSort(CountEvents(Eng).event_count_) :
    sorted_tracks_' = RebuildSortedTracks(CountEvents(Eng), a, b).sorted_tracks_

(* C14: a SortTracks call rebuilds the draw order when no capture is     *)
(* running and when it is the first call after Clear, even while         *)
(* capturing and within 1000 ms of the last reorder; otherwise, while    *)
(* capturing and within 1000 ms of the last reorder, it leaves           *)
(* sorted_tracks_ unchanged.                                             *)
C14_ReorderThrottled ==
  [][DoSortTracks =>
       IF ~is_capturing \/ unsorted_since_clear
       THEN DrawOrderRebuilt
       ELSE last_thread_reorder_ <= kReorderIntervalMs
              => sorted_tracks_' = sorted_tracks_]_vars


---------------------------------------------------------------------------
(* The place of a track's variant in the draw order. *)
GroupRank(t) ==
  CASE t.type = "scheduler" -> 0
    [] t.type = "gpu"       -> 1
    [] t.type = "graph"     -> 2
    [] t.type = "async"     -> 3
    [] t.type = "thread" /\ t.key = kAllThreadsFakeTid -> 4
    [] OTHER                -> 5

InVariantOrder ==
  /\ \A i, j \in DOMAIN sorted_tracks_ :
       i < j => GroupRank(sorted_tracks_[i]) <= GroupRank(sorted_tracks_[j])
  /\ scheduler_track_ \in Range(sorted_tracks_) <=> ~IsEmpty(Eng, scheduler_track_)
  /\ Range(MapValues(gpu_tracks_)) \cup Range(MapValues(graph_tracks_))
       \cup Range(MapValues(async_tracks_)) \subseteq Range(sorted_tracks_)

(* C15: whenever SortTracks rebuilds the draw order, the scheduler track  *)
(* comes first and only if it is non-empty, then all Gpu tracks, then all *)
(* Graph tracks, then all Async tracks, then the process track, then the  *)
(* per-thread tracks.                                                     *)
C15_VariantOrder ==
  [][DoSortTracks /\ ReorderIsDue(Eng) => InVariantOrder']_vars

(* C15: a rebuilt draw order with a Gpu track, a Graph track and a *)
(* per-thread track.                                               *)
C15_ThreeVariantsSorted ==
  /\ last_thread_reorder_ = 0
  /\ \E i, j, k \in DOMAIN sorted_tracks_ :
       /\ sorted_tracks_[i].type = "gpu"
       /\ sorted_tracks_[j].type = "graph"
       /\ sorted_tracks_[k].type = "thread" /\ sorted_tracks_[k].key # kAllThreadsFakeTid


---------------------------------------------------------------------------
(* The thread ids of the per-thread entries of the draw order, in order. *)
PerThreadIds ==
  LET per == SelectSeq(sorted_tracks_,
                       LAMBDA t : t.type = "thread" /\ t.key # kAllThreadsFakeTid)
  IN  [i \in DOMAIN per |-> per[i].key]

InRankOrder ==
  LET timed == DOMAIN thread_count_map_
  IN  /\ \A i, j \in DOMAIN PerThreadIds :
           LET a == PerThreadIds[i]
               b == PerThreadIds[j]
           IN  i < j =>
                 /\ ~(a \notin timed /\ b \in timed)
                 /\ a \in timed /\ b \in timed
                      => thread_count_map_[a] >= thread_count_map_[b]
                 /\ a \notin timed /\ b \notin timed
                      => event_count_[a] >= event_count_[b]
      /\ thread_filter_ = << >> =>
           Range(PerThreadIds) = (timed \cup DOMAIN event_count_) \ {kAllThreadsFakeTid}
      /\ \A i, j \in DOMAIN sorted_tracks_ :
           /\ sorted_tracks_[i].type = "thread"
           /\ sorted_tracks_[i].key = kAllThreadsFakeTid
           /\ sorted_tracks_[j].type = "thread"
           => i = j \/ (i < j /\ sorted_tracks_[j].key # kAllThreadsFakeTid)

---------------------------------------------------------------------------
(* How often the thread track of tid is in the draw order, and whether its *)
(* name contains a token of the filter.                                   *)
TimesListed(tid) ==
  Cardinality({ i \in DOMAIN sorted_tracks_ : sorted_tracks_[i] = thread_tracks_[tid] })

NameMatchesFilter(tid) ==
  \E token \in Range(StrSplit(thread_filter_)) :
    StrContains(track_state[thread_tracks_[tid]].name, token)

(* C17: in a rebuilt draw order, with a non-empty filter a per-thread     *)
(* track is listed if and only if it is non-empty and its name contains   *)
(* at least one of the space-separated tokens of the filter, and it is    *)
(* listed once even if several tokens match; with an empty filter every   *)
(* non-empty per-thread track is listed.                                  *)
C17_FilterIsDisjunction ==
  [][DoSortTracks /\ ReorderIsDue(Eng) =>
       (\A tid \in DOMAIN thread_tracks_ \ {kAllThreadsFakeTid} :
          TimesListed(tid) =
            IF /\ ~IsEmpty(Eng, thread_tracks_[tid])
               /\ thread_filter_ = << >> \/ NameMatchesFilter(tid)
            THEN 1 ELSE 0)']_vars


---------------------------------------------------------------------------
(* C18: SelectEvents is symmetric in its two world coordinates: a call    *)
(* SelectEvents(b, a, tid) right after SelectEvents(a, b, tid) returns    *)
(* the identical event list and leaves the identical per-thread selection *)
(* map.                                                                   *)
C18_SelectEventsSymmetric ==
  [][( /\ last_op.op = "SelectEvents" /\ last_op'.op = "SelectEvents"
       /\ last_op'.args[1] = last_op.args[2]
       /\ last_op'.args[2] = last_op.args[1]
       /\ last_op'.args[3] = last_op.args[3] )
     => /\ last_op'.args[4] = last_op.args[4]
        /\ selected_callstack_events_per_thread_' = selected_callstack_events_per_thread_]_vars

(* C18: a call with world_start > world_end has selected an event, which *)
(* is in the bucket of its thread and in the bucket of all threads.      *)
C18_InvertedRangeSelects ==
  /\ last_op.op = "SelectEvents"
  /\ last_op.args[1] > last_op.args[2]
  /\ last_op.args[4] # << >>
  /\ DOMAIN selected_callstack_events_per_thread_ = {kAllThreadsFakeTid, 2}


---------------------------------------------------------------------------
(* The box is not the last one of the chain of its track. *)
NotLastOfChain(text_box) ==
  text_box.index < Len(track_state[text_box.track].timers)

(* C19: for every record x that is not the last record of its chain,  *)
(* FindNext(x) returns a record and FindPrevious of it returns x.     *)
C19_NextThenPreviousReturns ==
  /\ last_op.op = "FindNext" /\ NotLastOfChain(last_op.args[1])
       => last_op.args[2] # NullBox
  /\ last_op.op = "FindPrevious" /\ NotLastOfChain(last_op.args[1])
       => last_op.args[3] = last_op.args[1]


---------------------------------------------------------------------------
(* C20: a value-tracking record with an unsupported encoding type is      *)
(* dropped: no sample is added to any Graph track, and ProcessTimer       *)
(* leaves the engine exactly as it would for the same record without the  *)
(* value, so that record and every later one are ingested the same.       *)
C20_UnsupportedValueDropped ==
  [][\A in \in RegInputs :
       (in[2].event_type = "kUnsupported" /\ DoProcessTimer({in}, MaxSteps))
         => Eng' = ProcessTimer(Eng, in[1], NoFunction)]_vars


---------------------------------------------------------------------------
(* No track of the registry holds a timer and the capture has no *)
(* callstack event.                                              *)
NoCaptureData ==
  /\ \A t \in Range(tracks_) : track_state[t].timers = << >>
  /\ callstack_data = {}

(* C21: ZoomAll on an engine with no capture data leaves min_time_us_ and *)
(* max_time_us_ unchanged and does not mark the engine dirty.             *)
C21_ZoomAllWithoutDataIsNoOp ==
  [][ZoomAllOnce /\ NoCaptureData
       => UNCHANGED << min_time_us_, max_time_us_,
                       needs_update_primitives_, needs_redraw_ >>]_vars

(* C21: ZoomAll found no data in an engine whose window an earlier capture *)
(* had opened and whose primitives were up to date.                        *)
C21_ZoomAllFoundNothing ==
  /\ last_op.op = "ZoomAll"
  /\ NoCaptureData
  /\ max_time_us_ > 0
  /\ ~needs_update_primitives_


---------------------------------------------------------------------------
Abs(x) == IF x < 0 THEN -x ELSE x

(* C22: ZoomTime leaves the window and the dirty flags unchanged whenever *)
(* the zoomed window would be narrower than 0.001 us, which on the grid   *)
(* of whole microseconds is a window of width 0 or less; otherwise, when  *)
(* SetMinMax clamps neither end, the new window is the old one scaled by  *)
(* 1.1 or 1 / 1.1 and the time under the mouse ratio keeps its relative   *)
(* position, both up to the rounding of the grid.                         *)
C22_ZoomTimeScalesOrRejects ==
  [][\A z \in {-1, 1}, r \in Ratios :
       ViewCall(ZoomTime(Eng, z, r), Op("ZoomTime")) =>
         LET width == max_time_us_ - min_time_us_
             n == IF z > 0 THEN 11 ELSE 10
             d == IF z > 0 THEN 10 ELSE 11
         IN  IF width <= 0
             THEN UNCHANGED << min_time_us_, max_time_us_,
                               needs_update_primitives_, needs_redraw_ >>
             ELSE ( /\ min_time_us_' > 0
                    /\ max_time_us_' < CaptureTimeSpanUs(Eng') )
                  => /\ Abs(d * (max_time_us_' - min_time_us_') - n * width) <= 2 * d
                     /\ Abs((r[2] * min_time_us_' + r[1] * (max_time_us_' - min_time_us_'))
                             - (r[2] * min_time_us_ + r[1] * width)) <= 2 * r[2]]_vars

(* C22: ZoomTime has narrowed a window inside the capture, neither end *)
(* being clamped.                                                      *)
C22_ZoomedInsideCapture ==
  /\ last_op.op = "ZoomTime"
  /\ min_time_us_ > 0
  /\ max_time_us_ < CaptureTimeSpanUs(Eng)
  /\ (max_time_us_ - min_time_us_) % (TickStep \div 10) # 0


---------------------------------------------------------------------------
(* C23: HorizontallyMoveIntoView leaves the window and the dirty flags     *)
(* unchanged if IsVisible(vis_type, lo, hi) holds; otherwise, when it      *)
(* reframes, the middle of the range is put at 1 - distance of the window, *)
(* and at distance of it when the range starts left of the window (the     *)
(* bias mirrored); checked up to rounding where SetMinMax clamps no end.   *)
C23_NoOpIfVisibleElseMirrored ==
  [][\A v \in VisibilityTypes, sp \in InnerSpans, d \in Distances :
       ViewCall(HorizontallyMoveIntoView(Eng, v, sp[1], sp[2], d),
                [op |-> "HorizontallyMoveIntoView", args |-> << v, sp[1], sp[2], d >>]) =>
         LET start == TicksToMicroseconds(capture_min_timestamp_, sp[1])
             end == TicksToMicroseconds(capture_min_timestamp_, sp[2])
             width == max_time_us_ - min_time_us_
             mid == start + (end - start) \div 2
             bias == IF start < min_time_us_ THEN d[1] ELSE d[2] - d[1]
         IN  IF IsVisible(Eng, v, sp[1], sp[2])
             THEN UNCHANGED << min_time_us_, max_time_us_,
                               needs_update_primitives_, needs_redraw_ >>
             ELSE ( /\ ~(v = "kFullyVisible" /\ width < end - start)
                    /\ min_time_us_' > 0
                    /\ max_time_us_' < CaptureTimeSpanUs(Eng') )
                  => /\ Abs(max_time_us_' - min_time_us_' - width) <= 1
                     /\ Abs(d[2] * (mid - min_time_us_') - bias * width) <= d[2]
                     /\ needs_update_primitives_' /\ needs_redraw_']_vars

(* C23: a range left of the window was moved into view, the window being *)
(* clamped at neither end.                                               *)
C23_MovedLeftIntoView ==
  /\ last_op.op = "HorizontallyMoveIntoView"
  /\ min_time_us_ > 0
  /\ max_time_us_ < CaptureTimeSpanUs(Eng)
  /\ LET start == TicksToMicroseconds(capture_min_timestamp_, last_op.args[2])
         end == TicksToMicroseconds(capture_min_timestamp_, last_op.args[3])
         d == last_op.args[4]
     IN  /\ d[1] # d[2] - d[1]
         /\ d[2] * ((start + (end - start) \div 2) - min_time_us_)
              = d[1] * (max_time_us_ - min_time_us_)


---------------------------------------------------------------------------
(* The tick range lies inside the capture extent the engine knows. *)
InsideCaptureExtent(lo, hi) ==
  /\ HasCaptureData(Eng)
  /\ capture_min_timestamp_ <= lo /\ lo <= hi /\ hi <= capture_max_timestamp_

(* The step left the window centred on the range, 1.1 times as wide. *)
CentredWithMargin(lo, hi) ==
  LET start == TicksToMicroseconds(capture_min_timestamp_, lo)
      end == TicksToMicroseconds(capture_min_timestamp_, hi)
  IN  /\ Abs((min_time_us_' + max_time_us_') - (start + end)) <= 2
      /\ Abs(10 * (max_time_us_' - min_time_us_') - 11 * (end - start)) <= 20

(* The range with a margin of 5% on each side lies in [0, capture span]. *)
MarginFits(lo, hi) ==
  LET start == TicksToMicroseconds(capture_min_timestamp_, lo)
      end == TicksToMicroseconds(capture_min_timestamp_, hi)
  IN  /\ 20 * start >= end - start
      /\ 20 * end + (end - start)
           <= 20 * CaptureTimeSpanUs(UpdateCaptureMinMaxTimestamps(Eng))

(* C24 as stated: after Zoom(lo, hi) the middle of the window is the       *)
(* middle of [tick_to_us(lo), tick_to_us(hi)] and the window is 1.1 times  *)
(* as wide as the range, for every range inside the capture extent.        *)
C24_ZoomCentresEveryRange ==
  [][\A sp \in InnerSpans :
       ( /\ ViewCall(Zoom(Eng, sp[1], sp[2]), [op |-> "Zoom", args |-> << sp[1], sp[2] >>])
         /\ InsideCaptureExtent(sp[1], sp[2]) )
       => CentredWithMargin(sp[1], sp[2])]_vars

(* C24 amended: the same for every range inside the capture extent whose *)
(* margin of 5% on each side stays inside [0, GetCaptureTimeSpanUs()];   *)
(* for the other ranges SetMinMax clamps the window.                     *)
C24_ZoomCentresFittingRange ==
  [][\A sp \in InnerSpans :
       ( /\ ViewCall(Zoom(Eng, sp[1], sp[2]), [op |-> "Zoom", args |-> << sp[1], sp[2] >>])
         /\ InsideCaptureExtent(sp[1], sp[2])
         /\ MarginFits(sp[1], sp[2]) )
       => CentredWithMargin(sp[1], sp[2])]_vars

(* C24: Zoom has framed a range in the middle of the capture, with its *)
(* margin on both sides.                                               *)
C24_ZoomedWithMargin ==
  /\ last_op.op = "Zoom"
  /\ HasCaptureData(Eng)
  /\ LET start == TicksToMicroseconds(capture_min_timestamp_, last_op.args[1])
         end == TicksToMicroseconds(capture_min_timestamp_, last_op.args[2])
     IN  /\ 0 < min_time_us_ /\ min_time_us_ < start
         /\ end < max_time_us_ /\ max_time_us_ < CaptureTimeSpanUs(Eng)
         /\ 10 * (max_time_us_ - min_time_us_) = 11 * (end - start)


---------------------------------------------------------------------------
(* The box the search of a jump returns. *)
GoalOf(from, rq) == FindGoal(Eng, from, rq[1], rq[2]).returned

(* C25: JumpToNeighborBox with a null from leaves the selection, the    *)
(* visible window, the registry and the dirty flags unchanged, and so   *)
(* does a jump from a box that has no neighbour in the direction asked. *)
C25_JumpWithoutGoalChangesNothing ==
  [][\A from \in TextBoxes(Eng) \cup {NullBox}, rq \in JumpRequests :
       ( /\ ViewCall(JumpToNeighborBox(Eng, from, rq[1], rq[2]),
                     [op |-> "JumpToNeighborBox", args |-> << from, rq[1], rq[2] >>])
         /\ from = NullBox \/ GoalOf(from, rq) = NullBox )
       => UNCHANGED << selected_text_box, min_time_us_, max_time_us_,
                       tracks_, scheduler_track_, process_track_, thread_tracks_,
                       gpu_tracks_, graph_tracks_, async_tracks_,
                       needs_update_primitives_, needs_redraw_ >>]_vars


---------------------------------------------------------------------------
(* What a step shows of a run of UpdatePrimitives, and of none. *)
PrimitivesRebuilt ==
  /\ time_window_us_' = max_time_us_ - min_time_us_
  /\ world_start_x_' = CanvasWorldTopLeftX /\ world_width_' = CanvasWorldWidth
  /\ capture_max_timestamp_' = Max2(capture_max_timestamp_, CallstackMaxTime(Eng))
  /\ event_count_' = CountEvents(Eng).event_count_
  /\ ReorderIsDue(Eng) => last_thread_reorder_' = 0
  /\ ~needs_update_primitives_'

PrimitivesKept ==
  UNCHANGED << time_window_us_, world_start_x_, world_width_, capture_max_timestamp_,
               event_count_, sorted_tracks_, last_thread_reorder_, tracks_,
               needs_update_primitives_ >>

(* C26: a Draw call in picking mode always runs UpdatePrimitives; a Draw *)
(* call in non-picking mode runs it if and only if                       *)
(* needs_update_primitives_ is set; UpdatePrimitives leaves the flag     *)
(* cleared and Draw leaves needs_redraw_ cleared.                        *)
C26_RebuildOnDirtyOrForced ==
  [][\A picking \in BOOLEAN :
       (\E e \in Draw(Eng, picking) : Call(e))
         => /\ IF picking \/ needs_update_primitives_
               THEN PrimitivesRebuilt ELSE PrimitivesKept
            /\ ~needs_redraw_']_vars

(* C26: the first call on a new engine, whose flag is clear, was a Draw in *)
(* picking mode and has rebuilt the primitives.                           *)
C26_ForcedRebuild ==
  /\ steps = 1
  /\ world_width_ = CanvasWorldWidth
  /\ ~needs_update_primitives_ /\ ~needs_redraw_


---------------------------------------------------------------------------
(* The tracks of the registry that hold a timer, and the least of their *)
(* minimum times and of the minimum time of the callstack events.       *)
TracksWithTimers == { t \in Range(tracks_) : track_state[t].timers # << >> }

LeastTimeOfData ==
  SetMin({ GetMinTime(Eng, t) : t \in TracksWithTimers }
           \cup { ev.time : ev \in callstack_data })

(* C27: UpdateCaptureMinMaxTimestamps returns true if and only if a track *)
(* holds a timer or there is a callstack event; when it returns true,     *)
(* capture_min_timestamp_ is the least of the minimum times of the        *)
(* non-empty tracks and of the events, and capture_max_timestamp_ is at   *)
(* least the maximum time of the events.                                  *)
C27_ExtentOfAllData ==
  [][DoUpdateCaptureMinMaxTimestamps =>
       /\ HasCaptureData(Eng') <=> (TracksWithTimers # {} \/ callstack_data # {})
       /\ HasCaptureData(Eng') =>
            /\ capture_min_timestamp_' = LeastTimeOfData
            /\ callstack_data # {} => capture_max_timestamp_' >= CallstackMaxTime(Eng)]_vars


---------------------------------------------------------------------------
(* The boxes of all thread tracks in the order an unpruned scan meets   *)
(* them: track after track, each chain in the order of arrival.         *)
RECURSIVE BoxesOfTracks(_)
BoxesOfTracks(tracks) ==
  IF tracks = << >> THEN << >>
  ELSE [i \in 1..Len(track_state[Head(tracks)].timers) |-> TextBox(Head(tracks), i)]
         \o BoxesOfTracks(Tail(tracks))

ScanOrder == BoxesOfTracks(MapValues(thread_tracks_))

EndOf(i) == GetTimerInfo(Eng, ScanOrder[i]).end

(* The places in ScanOrder of the calls of the function, on the thread if *)
(* one is given.                                                          *)
CallsOf(function_address, thread_ID) ==
  { i \in DOMAIN ScanOrder :
      /\ GetTimerInfo(Eng, ScanOrder[i]).function_address = function_address
      /\ thread_ID = {} \/ GetTimerInfo(Eng, ScanOrder[i]).thread_id \in thread_ID }

(* Of the places in S, the first with the greatest (least) end. *)
FirstWithGreatestEnd(S) ==
  IF S = {} THEN NullBox
  ELSE ScanOrder[SetMin({ i \in S : \A j \in S : EndOf(j) <= EndOf(i) })]

FirstWithLeastEnd(S) ==
  IF S = {} THEN NullBox
  ELSE ScanOrder[SetMin({ i \in S : \A j \in S : EndOf(j) >= EndOf(i) })]

(* C28: FindPreviousFunctionCall(f, t, tid) returns, of the records of all *)
(* thread-track chains with function address f (and thread id tid when     *)
(* given) and end < t, the one with the greatest end, the first found in   *)
(* chain order on ties, or null if there is none; FindNextFunctionCall     *)
(* returns the one with the least end > t.  Skipping blocks by Intersects  *)
(* changes nothing, for any arrival order of the records.                  *)
C28_PrunedScanIsExact ==
  /\ last_op.op = "FindPreviousFunctionCall" =>
       last_op.args[4] =
         FirstWithGreatestEnd({ i \in CallsOf(last_op.args[1], last_op.args[3]) :
                                  EndOf(i) < last_op.args[2] })
  /\ last_op.op = "FindNextFunctionCall" =>
       last_op.args[4] =
         FirstWithLeastEnd({ i \in CallsOf(last_op.args[1], last_op.args[3]) :
                               EndOf(i) > last_op.args[2] })

(* C28: a search backwards has skipped a block and has returned the first *)
(* of two calls that end at the same tick.                                *)
C28_BlockSkippedAndTie ==
  /\ last_op.op = "FindPreviousFunctionCall"
  /\ last_op.args[4] # NullBox
  /\ \E i \in DOMAIN GetAllThreadTrackTimerChains(Eng) :
       ~Intersects(Eng, GetAllThreadTrackTimerChains(Eng)[i], 0, last_op.args[2])
  /\ \E i \in CallsOf(last_op.args[1], last_op.args[3]) :
       /\ ScanOrder[i] # last_op.args[4]
       /\ EndOf(i) = GetTimerInfo(Eng, last_op.args[4]).end


---------------------------------------------------------------------------
(* The selected events of a thread, none if the map has no bucket for it. *)
SelectedOf(tid) ==
  IF tid \in DOMAIN selected_callstack_events_per_thread_
  THEN selected_callstack_events_per_thread_[tid]
  ELSE << >>

(* C29: after every SelectEvents call the per-thread selection map is    *)
(* recomputed from that call alone: the bucket of all threads is the     *)
(* returned list (each returned event once, in the same order), the      *)
(* bucket of each real thread id is the sub-list of the returned events  *)
(* of that thread, no bucket holds an event of an earlier selection, and *)
(* the engine is marked dirty.                                           *)
C29_SelectionRecomputed ==
  last_op.op = "SelectEvents" =>
    LET returned == last_op.args[4]
    IN  /\ SelectedOf(kAllThreadsFakeTid) = returned
        /\ NoDuplicates(returned)
        /\ \A tid \in { ev.thread_id : ev \in SampledEvents } :
             SelectedOf(tid) = SelectSeq(returned, LAMBDA ev : ev.thread_id = tid)
        /\ \A tid \in DOMAIN selected_callstack_events_per_thread_ :
             Range(selected_callstack_events_per_thread_[tid]) \subseteq Range(returned)
        /\ needs_update_primitives_
        /\ needs_redraw_

(* C29: a selection of thread 2 has followed a selection that held an *)
(* event of thread 1.                                                 *)
C29_ReplacedEarlierSelection ==
  /\ last_op.op = "SelectEvents"
  /\ last_op.args[4] # << >>
  /\ 1 \in DOMAIN last_op.args[5]
  /\ last_op.args[5][1] # << >>
  /\ 1 \notin DOMAIN selected_callstack_events_per_thread_


---------------------------------------------------------------------------
(* C30: GetWorldFromTick is a function of capture_min_timestamp_, of the *)
(* visible window [min_time_us_, max_time_us_] and of the geometry of    *)
(* the viewport alone: two states one after the other that agree on      *)
(* these (the canvas is the same in all states) give the same coordinate *)
(* for every tick, also after SetMinMax, Zoom or ZoomTime and before the *)
(* next UpdatePrimitives; and the coordinate is the fixed value 0 for    *)
(* every tick exactly when the visible window has zero width.            *)
C30_WorldFromTickIsPure ==
  [][/\ ( /\ capture_min_timestamp_' = capture_min_timestamp_
          /\ min_time_us_' = min_time_us_
          /\ max_time_us_' = max_time_us_ )
        => \A a_Time \in Ticks :
             GetWorldFromTick(Eng', a_Time) = GetWorldFromTick(Eng, a_Time)
     /\ (\A a_Time \in Ticks : GetWorldFromTick(Eng', a_Time) = 0)
          <=> max_time_us_' = min_time_us_']_vars


---------------------------------------------------------------------------
(* C31: no rebuild loses a concurrently ingested record.  When the       *)
(* consumer's UpdatePrimitives returns with the producer's ProcessTimer  *)
(* returned already, every record of a track of the draw order was       *)
(* visited by the rebuild of its track or needs_update_primitives_ is    *)
(* still true; when ProcessTimer returns last, the flag is true.         *)
C31_NoRecordLostByRebuild ==
  [][/\ (UpDone /\ pc.producer = "idle") =>
          \A i \in DOMAIN sorted_tracks_ :
            \/ GetNumTimers(Eng', sorted_tracks_[i]) = local.consumer.visited[i]
            \/ needs_update_primitives_'
     /\ (PtNeedsUpdate /\ pc.consumer = "idle") => needs_update_primitives_']_vars


---------------------------------------------------------------------------
(* The tracks the engine e can look up: the scheduler track and the *)
(* non-null values of the four maps.                                *)
TracksLookedUp(e) ==
  ( {e.scheduler_track_} \cup Range(e.thread_tracks_) \cup Range(e.gpu_tracks_)
      \cup Range(e.graph_tracks_) \cup Range(e.async_tracks_) ) \ {Null}

RegistryConsistent(e) ==
  /\ NoDuplicates(e.tracks_)
  /\ Range(e.tracks_) = TracksLookedUp(e)
  /\ e.scheduler_track_ # Null
  /\ e.process_track_ # Null
  /\ e.process_track_ = Lookup(e.thread_tracks_, kAllThreadsFakeTid)

(* C32: in every reachable state the owning list tracks_ holds each     *)
(* track exactly once and is exactly the scheduler track and the        *)
(* non-null values of thread_tracks_, gpu_tracks_, graph_tracks_ and    *)
(* async_tracks_; scheduler_track_ and process_track_ are non-null and  *)
(* process_track_ is the thread_tracks_ entry of kAllThreadsFakeTid;    *)
(* a track leaves tracks_ only in a Clear.                              *)
C32_RegistryConsistent ==
  [][/\ RegistryConsistent(Eng)
     /\ RegistryConsistent(Eng')
     /\ (Range(tracks_) \ Range(tracks_') # {}) => DoClear(MaxSteps)]_vars

(* C32: after a Clear the registry holds the two tracks Clear creates *)
(* and a Gpu track registered since.                                  *)
C32_RegisteredAfterClear ==
  /\ generation > 0
  /\ gpu_tracks_ # << >>
  /\ Len(tracks_) = 3


---------------------------------------------------------------------------
(* C33: the draw order refers to live tracks only: in every reachable   *)
(* state, also right after Clear and after a SortTracks skipped while   *)
(* capturing, every track of sorted_tracks_ is a track held in tracks_. *)
C33_DrawOrderInRegistry ==
  Range(sorted_tracks_) \subseteq Range(tracks_)


---------------------------------------------------------------------------
(* C34: HorizontallyMoveIntoView establishes what it was asked for: for *)
(* every window, every bias in [0, 1] and every range [lo, hi] inside   *)
(* the capture extent, IsVisible(vis_type, lo, hi) holds after the      *)
(* call, for kPartlyVisible and for kFullyVisible.                      *)
C34_MoveIntoViewEstablishesVisible ==
  [][\A v \in VisibilityTypes, sp \in InnerSpans, d \in Distances :
       ( /\ ViewCall(HorizontallyMoveIntoView(Eng, v, sp[1], sp[2], d),
                     [op |-> "HorizontallyMoveIntoView", args |-> << v, sp[1], sp[2], d >>])
         /\ InsideCaptureExtent(sp[1], sp[2]) )
       => IsVisible(Eng', v, sp[1], sp[2])]_vars


---------------------------------------------------------------------------
(* The step leaves the registry of thread tracks, the number of timers *)
(* of every thread track and thread_count_map_ as they were.           *)
ThreadTracksUntouched ==
  /\ thread_tracks_' = thread_tracks_
  /\ tracks_' = tracks_
  /\ \A tid \in DOMAIN thread_tracks_ :
       GetNumTimers(Eng', thread_tracks_[tid]) = GetNumTimers(Eng, thread_tracks_[tid])
  /\ thread_count_map_' = thread_count_map_

(* C35: ProcessTimer of a CoreActivity record changes only the scheduler *)
(* track, cores_seen_, capture_max_timestamp_ and the dirty flags: it    *)
(* leaves thread_tracks_, tracks_, the number of timers of every thread  *)
(* track and thread_count_map_ unchanged; and a value sample dropped for *)
(* its unsupported encoding adds no entry to graph_tracks_ or tracks_.   *)
C35_IngestionFrameByKind ==
  [][\A in \in RegInputs :
       DoProcessTimer({in}, MaxSteps) =>
         /\ in[1].type = "kCoreActivity" =>
              /\ ThreadTracksUntouched
              /\ UNCHANGED << gpu_tracks_, graph_tracks_, async_tracks_, sorted_tracks_,
                              capture_min_timestamp_, min_time_us_, max_time_us_ >>
         /\ in[2].event_type = "kUnsupported" =>
              /\ DOMAIN graph_tracks_' = DOMAIN graph_tracks_
              /\ Len(tracks_') = Len(ProcessTimer(Eng, in[1], NoFunction).tracks_)]_vars

===========================================================================
